---------------------------- MODULE Spec2Model ----------------------------
(***************************************************************************)
(* Motion planner of MarlinX2 (src/Marlin/planner.cpp): the block ring     *)
(* buffer shared by the foreground planner and the stepper interrupt, the  *)
(* block builder plan_buffer_line, the look-ahead passes and the trapezoid *)
(* generator.                                                              *)
(*                                                                         *)
(* Numbers.  The C code computes speeds, lengths and accelerations in      *)
(* float.  Here every such quantity is a fixed-point integer counted in    *)
(* 1/FP of its unit (FP = 100: lengths in 0.01 mm, speeds in 0.01 mm/s,    *)
(* accelerations in 0.01 mm/s^2); a ratio of two floats (speed_factor,     *)
(* vmax_junction_factor, entry_factor, exit_factor) is kept as an exact    *)
(* pair <<numerator, denominator>>; sqrt() is the integer square root.     *)
(* Step counts and step rates are the integers of the C code.              *)
(*                                                                         *)
(* Build.  EXTRUDERS = 2; SLOWDOWN is defined; XY_FREQUENCY_LIMIT,         *)
(* C_COMPENSATION, AUTOTEMP and PREVENT_DANGEROUS_EXTRUDE are not (the     *)
(* XY_FREQUENCY_LIMIT code reads segment_time outside its scope and cannot *)
(* be compiled in).  One fan: FAN_PIN > -1, FAN_KICKSTART_TIME is defined, *)
(* PER_EXTRUDER_FANS and FAN_SOFT_PWM are not.                             *)
(***************************************************************************)
EXTENDS Integers, Sequences, FiniteSets, TLC

\* ------------------------------------------------------------------------
\* Build constants (Configuration.h / planner.h values used by planner.cpp)
\* ------------------------------------------------------------------------
FP == 100

BLOCK_BUFFER_SIZE == 8

EXTRUDERS == 2

NUM_AXIS == 4

X_AXIS == 0

Y_AXIS == 1

Z_AXIS == 2

E_AXIS == 3

MIN_STEP_RATE == 120

\* MINIMUM_PLANNER_SPEED is 0.05 mm/s
MINIMUM_PLANNER_SPEED == 5

dropsegments == 5

extrudemultiply == 100

\* ------------------------------------------------------------------------
\* Kinematic configuration (the public variables of planner.cpp)
\* ------------------------------------------------------------------------
\* steps per mm, indexed X, Y, Z, E0, E1
axis_steps_per_unit == <<80, 80, 80, 100, 140>>

\* mm/s in 1/FP
max_feedrate == <<50000, 50000, 500, 4500, 4500>>

\* mm/s^2
max_acceleration_units_per_sq_second == <<9000, 9000, 100, 10000, 10000>>

\* mm/s^2
acceleration == 3000

\* mm/s^2, per extruder
retract_acceleration == <<3000, 3000>>

\* mm/s in 1/FP, per extruder
max_e_jerk == <<500, 500>>

\* 20 mm/s
max_xy_jerk == 2000

\* 0.4 mm/s
max_z_jerk == 40

minimumfeedrate == 0

mintravelfeedrate == 0

\* microseconds
minsegmenttime == 20000

\* fan PWM target per extruder
fanSpeed == <<128, 0>>

\* ------------------------------------------------------------------------
\* Arithmetic of the C library on the fixed-point representation
\* ------------------------------------------------------------------------
Abs(a) == IF a < 0 THEN -a ELSE a

Min(a, b) == IF a < b THEN a ELSE b

Max(a, b) == IF a > b THEN a ELSE b

\* floor(n / d) for d # 0
FloorDiv(n, d) == IF d > 0 THEN n \div d ELSE (-n) \div (-d)

\* ceil(n / d) for d # 0
CeilDiv(n, d) == -FloorDiv(-n, d)

\* n / d truncated toward zero: a float-to-integer conversion of n / d
TruncDiv(n, d) ==
  LET q == Abs(n) \div Abs(d)
  IN  IF (n < 0) = (d < 0) THEN q ELSE -q

\* lround(n / d): nearest integer, halves away from zero
RoundDiv(n, d) ==
  LET q == Abs(n) \div Abs(d)
      r == Abs(n) % Abs(d)
      up == IF 2 * r >= Abs(d) THEN q + 1 ELSE q
  IN  IF (n < 0) = (d < 0) THEN up ELSE -up

RECURSIVE SqrtIter(_, _, _)
SqrtIter(n, lo, hi) ==
  IF lo >= hi THEN lo
  ELSE LET mid == (lo + hi + 1) \div 2
       IN  IF mid * mid <= n THEN SqrtIter(n, mid, hi)
           ELSE SqrtIter(n, lo, mid - 1)

\* sqrt(n), rounded down
ISqrt(n) == SqrtIter(n, 0, 46340)

\* a ratio num/den with den > 0, as the pair <<num, den>>
RatLess(r, s) == r[1] * s[2] < s[1] * r[2]

RatMin(r, s) == IF RatLess(s, r) THEN s ELSE r

\* ------------------------------------------------------------------------
\* Ring indices
\* ------------------------------------------------------------------------
Slots == 0 .. (BLOCK_BUFFER_SIZE - 1)

\* x & (BLOCK_BUFFER_SIZE - 1), BLOCK_BUFFER_SIZE a power of two
AndMask(x) == x % BLOCK_BUFFER_SIZE

\* a ring whose index wraps to slot 1
next_block_index_skipping(block_index) ==
  IF block_index + 1 = BLOCK_BUFFER_SIZE THEN 1 ELSE block_index + 1

next_block_index(block_index) ==
  IF block_index + 1 = BLOCK_BUFFER_SIZE THEN 0 ELSE block_index + 1

prev_block_index(block_index) ==
  (IF block_index = 0 THEN BLOCK_BUFFER_SIZE ELSE block_index) - 1

\* the depth without the wrap of the indices
movesplanned_unmasked(head, tail) == head - tail

movesplanned(head, tail) == AndMask(head - tail + BLOCK_BUFFER_SIZE)

\* ------------------------------------------------------------------------
\* Blocks
\* ------------------------------------------------------------------------
NULL == -1

Axes == 0 .. (NUM_AXIS - 1)

StepsPerUnit(ii) == axis_steps_per_unit[ii + 1]

MaxFeedrate(ii) == max_feedrate[ii + 1]

MaxAccel(ii) == max_acceleration_units_per_sq_second[ii + 1]

\* block_buffer lives in zero-initialised static storage
ZeroBlock ==
  [ busy |-> FALSE,
    steps_x |-> 0, steps_y |-> 0, steps_z |-> 0, steps_e |-> 0,
    step_event_count |-> 0,
    direction_bits |-> {},
    active_extruder |-> 0,
    fan_speed |-> 0,
    travel |-> FALSE, retract |-> FALSE, restore |-> FALSE,
    millimeters |-> 0,
    nominal_speed |-> 0,
    nominal_rate |-> 0,
    acceleration_st |-> 0,
    acceleration |-> 0,
    entry_speed |-> 0,
    max_entry_speed |-> 0,
    nominal_length_flag |-> FALSE,
    recalculate_flag |-> FALSE,
    accelerate_until |-> 0,
    decelerate_after |-> 0,
    initial_rate |-> 0,
    final_rate |-> 0 ]

\* lines 704-707 and 724-739: the steps of a block along an axis, counted
\* against the axis when its direction bit is set
SignedSteps(block, axis) ==
  LET steps == CASE axis = X_AXIS -> block.steps_x [] axis = Y_AXIS -> block.steps_y
                 [] axis = Z_AXIS -> block.steps_z [] OTHER -> block.steps_e
  IN  IF axis \in block.direction_bits THEN -steps ELSE steps

\* ------------------------------------------------------------------------
\* Trapezoid generator
\* ------------------------------------------------------------------------
\* a guard that replaces a zero acceleration by one step/s^2
estimate_acceleration_distance_unit(initial_rate, target_rate, accel) ==
  IF accel # 0
  THEN << target_rate * target_rate - initial_rate * initial_rate, 2 * accel >>
  ELSE << target_rate * target_rate - initial_rate * initial_rate, 2 >>

\* the float results below are ratios <<num, den>>, den # 0
estimate_acceleration_distance(initial_rate, target_rate, accel) ==
  IF accel # 0
  THEN << target_rate * target_rate - initial_rate * initial_rate, 2 * accel >>
  ELSE << 0, 1 >>

intersection_distance(initial_rate, final_rate, accel, distance) ==
  IF accel # 0
  THEN << 2 * accel * distance - initial_rate * initial_rate
            + final_rate * final_rate, 4 * accel >>
  ELSE << 0, 1 >>

\* sqrt(target_velocity^2 - 2*acceleration*distance), all in 1/FP
max_allowable_speed(accel, target_velocity, distance) ==
  ISqrt(target_velocity * target_velocity - 2 * accel * distance)

\* lines 218-233: the rates of this call, from the entry and exit factors
ClampedInitialRate(nominal_rate, entry_factor) ==
  LET initial_rate == CeilDiv(nominal_rate * entry_factor[1], entry_factor[2])
  IN  IF initial_rate < MIN_STEP_RATE THEN MIN_STEP_RATE ELSE initial_rate

ClampedFinalRate(nominal_rate, exit_factor) ==
  LET final_rate == CeilDiv(nominal_rate * exit_factor[1], exit_factor[2])
      floored == IF final_rate < MIN_STEP_RATE THEN MIN_STEP_RATE ELSE final_rate
  IN  IF floored > nominal_rate THEN nominal_rate ELSE floored

\* lines 235-253: the step counts; the distances are computed from the rates
\* the block holds when the function is entered (block->initial_rate,
\* block->final_rate), not from the rates of this call
TrapezoidSteps(block) ==
  LET target_rate == block.nominal_rate
      accel == block.acceleration_st
      ad == estimate_acceleration_distance(block.initial_rate, target_rate, accel)
      dd == estimate_acceleration_distance(target_rate, block.final_rate, -accel)
      accelerate_steps == CeilDiv(ad[1], ad[2])
      decelerate_steps == FloorDiv(dd[1], dd[2])
      plateau_steps == block.step_event_count - accelerate_steps - decelerate_steps
      id == intersection_distance(block.initial_rate, block.final_rate, accel,
                                  block.step_event_count)
      isect == Min(Max(CeilDiv(id[1], id[2]), 0), block.step_event_count)
  IN  IF plateau_steps < 0
      THEN [ accelerate_steps |-> isect, plateau_steps |-> 0 ]
      ELSE [ accelerate_steps |-> accelerate_steps, plateau_steps |-> plateau_steps ]

\* the stores made whatever busy says
calculate_trapezoid_unguarded(block, entry_factor, exit_factor) ==
  LET st == TrapezoidSteps(block)
  IN  [ block EXCEPT
          !.accelerate_until = st.accelerate_steps,
          !.decelerate_after = st.accelerate_steps + st.plateau_steps,
          !.initial_rate = ClampedInitialRate(block.nominal_rate, entry_factor),
          !.final_rate = ClampedFinalRate(block.nominal_rate, exit_factor) ]

\* lines 275-287: the stores, made in one critical section and only when the
\* block is not busy
calculate_trapezoid_for_block(block, entry_factor, exit_factor) ==
  LET st == TrapezoidSteps(block)
  IN  IF block.busy = FALSE
      THEN [ block EXCEPT
               !.accelerate_until = st.accelerate_steps,
               !.decelerate_after = st.accelerate_steps + st.plateau_steps,
               !.initial_rate = ClampedInitialRate(block.nominal_rate, entry_factor),
               !.final_rate = ClampedFinalRate(block.nominal_rate, exit_factor) ]
      ELSE block

\* ------------------------------------------------------------------------
\* Look-ahead kernels (current, next: slots of buf, or NULL)
\* ------------------------------------------------------------------------
planner_reverse_pass_kernel(buf, current, next) ==
  IF current = NULL \/ next = NULL THEN buf
  ELSE LET c == buf[current]
           n == buf[next]
       IN  IF c.entry_speed # c.max_entry_speed
           THEN [ buf EXCEPT
                    ![current].entry_speed =
                       IF (~c.nominal_length_flag) /\ c.max_entry_speed > n.entry_speed
                       THEN Min(c.max_entry_speed,
                                max_allowable_speed(-c.acceleration, n.entry_speed,
                                                    c.millimeters))
                       ELSE c.max_entry_speed,
                    ![current].recalculate_flag = TRUE ]
           ELSE buf

\* a forward kernel that takes the allowable speed without the planned limit
planner_forward_pass_kernel_unlimited(buf, previous, current) ==
  IF previous = NULL THEN buf
  ELSE LET p == buf[previous]
           c == buf[current]
           entry_speed == max_allowable_speed(-p.acceleration, p.entry_speed,
                                              p.millimeters)
       IN  IF (~p.nominal_length_flag) /\ p.entry_speed < c.entry_speed
              /\ c.entry_speed # entry_speed
           THEN [ buf EXCEPT ![current].entry_speed = entry_speed,
                             ![current].recalculate_flag = TRUE ]
           ELSE buf

planner_forward_pass_kernel(buf, previous, current) ==
  IF previous = NULL THEN buf
  ELSE LET p == buf[previous]
           c == buf[current]
           entry_speed == Min(c.entry_speed,
                              max_allowable_speed(-p.acceleration, p.entry_speed,
                                                  p.millimeters))
       IN  IF (~p.nominal_length_flag) /\ p.entry_speed < c.entry_speed
              /\ c.entry_speed # entry_speed
           THEN [ buf EXCEPT ![current].entry_speed = entry_speed,
                             ![current].recalculate_flag = TRUE ]
           ELSE buf

\* one iteration of the loop of planner_recalculate_trapezoids (lines 427-445)
RecalculateTrapezoidPair(buf, current, next) ==
  IF current # NULL /\ (buf[current].recalculate_flag \/ buf[next].recalculate_flag)
  THEN [ buf EXCEPT ![current] =
           [ calculate_trapezoid_for_block(buf[current],
               << buf[current].entry_speed, buf[current].nominal_speed >>,
               << buf[next].entry_speed, buf[current].nominal_speed >>)
             EXCEPT !.recalculate_flag = FALSE ] ]
  ELSE buf

\* a newest block resolved to leave at its entry speed
RecalculateTrapezoidLast_coasting(buf, next) ==
  IF next # NULL
  THEN [ buf EXCEPT ![next] =
           [ calculate_trapezoid_for_block(buf[next],
               << buf[next].entry_speed, buf[next].nominal_speed >>,
               << buf[next].entry_speed, buf[next].nominal_speed >>)
             EXCEPT !.recalculate_flag = FALSE ] ]
  ELSE buf

\* the newest block (lines 449-463)
RecalculateTrapezoidLast(buf, next) ==
  IF next # NULL
  THEN [ buf EXCEPT ![next] =
           [ calculate_trapezoid_for_block(buf[next],
               << buf[next].entry_speed, buf[next].nominal_speed >>,
               << MINIMUM_PLANNER_SPEED, buf[next].nominal_speed >>)
             EXCEPT !.recalculate_flag = FALSE ] ]
  ELSE buf

\* ------------------------------------------------------------------------
\* Block builder: plan_buffer_line
\* ------------------------------------------------------------------------
\* lines 664-668: the target in steps; x, y, z, e are lengths in 1/FP mm
TargetSteps(x, y, z, e, extruder) ==
  [ i \in Axes |->
      CASE i = X_AXIS -> RoundDiv(x * StepsPerUnit(X_AXIS), FP)
        [] i = Y_AXIS -> RoundDiv(y * StepsPerUnit(Y_AXIS), FP)
        [] i = Z_AXIS -> RoundDiv(z * StepsPerUnit(Z_AXIS), FP)
        [] OTHER      -> RoundDiv(e * StepsPerUnit(E_AXIS + extruder), FP) ]

\* lines 672-679: position[E_AXIS] counted in the steps of the new extruder
RescaledPosition(pos, last_ext, extruder) ==
  IF last_ext # extruder
     /\ StepsPerUnit(E_AXIS + extruder) # StepsPerUnit(E_AXIS + last_ext)
  THEN [ pos EXCEPT ![E_AXIS] =
           RoundDiv(pos[E_AXIS] * StepsPerUnit(E_AXIS + extruder),
                    StepsPerUnit(E_AXIS + last_ext)) ]
  ELSE pos

\* steps_z counted from position[Y_AXIS]
PrepareBlock_mixed_axes(block, target, pos) ==
  LET sx == Abs(target[X_AXIS] - pos[X_AXIS])
      sy == Abs(target[Y_AXIS] - pos[Y_AXIS])
      sz == Abs(target[Z_AXIS] - pos[Y_AXIS])
      se == (Abs(target[E_AXIS] - pos[E_AXIS]) * extrudemultiply) \div 100
  IN  [ block EXCEPT
          !.busy = FALSE,
          !.steps_x = sx, !.steps_y = sy, !.steps_z = sz, !.steps_e = se,
          !.step_event_count = Max(sx, Max(sy, Max(sz, se))) ]

\* lines 704-716: the first stores into block_buffer[block_buffer_head]
PrepareBlock(block, target, pos) ==
  LET sx == Abs(target[X_AXIS] - pos[X_AXIS])
      sy == Abs(target[Y_AXIS] - pos[Y_AXIS])
      sz == Abs(target[Z_AXIS] - pos[Z_AXIS])
      se == (Abs(target[E_AXIS] - pos[E_AXIS]) * extrudemultiply) \div 100
  IN  [ block EXCEPT
          !.busy = FALSE,
          !.steps_x = sx, !.steps_y = sy, !.steps_z = sz, !.steps_e = se,
          !.step_event_count = Max(sx, Max(sy, Max(sz, se))) ]

\* a bail that also discards a block of dropsegments + 1 steps
Dropped_above(block) == block.step_event_count <= dropsegments + 1

\* line 719
Dropped(block) == block.step_event_count <= dropsegments

\* lines 779-783: the displacement in 1/FP mm
DeltaMM(target, pos, extruder) ==
  [ i \in Axes |->
      IF i = E_AXIS
      THEN TruncDiv(TruncDiv((target[i] - pos[i]) * FP,
                             StepsPerUnit(E_AXIS + extruder)) * extrudemultiply, 100)
      ELSE TruncDiv((target[i] - pos[i]) * FP, StepsPerUnit(i)) ]

\* lines 786, 789, 803
NoMove(block) ==
  /\ block.steps_x <= dropsegments
  /\ block.steps_y <= dropsegments
  /\ block.steps_z <= dropsegments

\* lines 788, 802
Millimeters(block, delta_mm) ==
  IF NoMove(block) THEN Abs(delta_mm[E_AXIS])
  ELSE ISqrt(delta_mm[X_AXIS] * delta_mm[X_AXIS] + delta_mm[Y_AXIS] * delta_mm[Y_AXIS]
             + delta_mm[Z_AXIS] * delta_mm[Z_AXIS])

\* lines 766-775
FlooredFeedRate(block, feed_rate) ==
  IF block.steps_e = 0 THEN Max(feed_rate, mintravelfeedrate)
  ELSE Max(feed_rate, minimumfeedrate)

\* lines 805-827: inverse_second as a ratio [1/s], after the SLOWDOWN stretch
InverseSecond(delta_mm, millimeters, feed_rate, moves_queued) ==
  LET segment_time == RoundDiv(1000000 * millimeters, feed_rate)
  IN  IF /\ delta_mm[E_AXIS] # 0 /\ delta_mm[Z_AXIS] = 0
         /\ (delta_mm[X_AXIS] # 0 \/ delta_mm[Y_AXIS] # 0)
         /\ moves_queued > 1 /\ 2 * moves_queued < BLOCK_BUFFER_SIZE
         /\ segment_time < minsegmenttime
      THEN << 1000000,
              segment_time + (2 * (minsegmenttime - segment_time)) \div moves_queued >>
      ELSE << feed_rate, millimeters >>

\* lines 833-856: speed_factor as a ratio <= 1
RECURSIVE SpeedFactorXYZ(_, _, _)
SpeedFactorXYZ(current_speed, i, speed_factor) ==
  IF i = 3 THEN speed_factor
  ELSE SpeedFactorXYZ(current_speed, i + 1,
         IF Abs(current_speed[i]) > MaxFeedrate(i)
         THEN RatMin(speed_factor, << MaxFeedrate(i), Abs(current_speed[i]) >>)
         ELSE speed_factor)

SpeedFactor(current_speed, extruder) ==
  LET xyz == SpeedFactorXYZ(current_speed, 0, << 1, 1 >>)
  IN  IF Abs(current_speed[E_AXIS]) > MaxFeedrate(E_AXIS + extruder)
      THEN RatMin(xyz, << MaxFeedrate(E_AXIS + extruder), Abs(current_speed[E_AXIS]) >>)
      ELSE xyz

\* lines 904-929: acceleration_st in steps/s^2
RECURSIVE LimitAcceleration(_, _, _, _)
LimitAcceleration(block, extruder, i, acceleration_st) ==
  IF i = NUM_AXIS THEN acceleration_st
  ELSE LET ii == i + (IF i = E_AXIS THEN extruder ELSE 0)
           axis_steps_per_sqr_second == MaxAccel(ii) * StepsPerUnit(ii)
           steps == CASE i = X_AXIS -> block.steps_x
                      [] i = Y_AXIS -> block.steps_y
                      [] i = Z_AXIS -> block.steps_z
                      [] OTHER      -> block.steps_e
       IN  LimitAcceleration(block, extruder, i + 1,
             IF acceleration_st * steps > axis_steps_per_sqr_second * block.step_event_count
             THEN axis_steps_per_sqr_second
             ELSE acceleration_st)

AccelerationSt(block, millimeters, extruder) ==
  IF NoMove(block)
  THEN CeilDiv(retract_acceleration[extruder + 1] * block.step_event_count * FP,
               millimeters)
  ELSE LimitAcceleration(block, extruder, 0,
         CeilDiv(acceleration * block.step_event_count * FP, millimeters))

\* lines 941-949: the junction speed a block may always enter with
SafeJunctionSpeed(current_speed, nominal_speed, extruder) ==
  LET v0 == max_xy_jerk \div 2
      v1 == IF Abs(current_speed[Z_AXIS]) > max_z_jerk \div 2
            THEN Min(v0, max_z_jerk \div 2) ELSE v0
      v2 == IF Abs(current_speed[E_AXIS]) > max_e_jerk[extruder + 1] \div 2
            THEN Min(v1, max_e_jerk[extruder + 1] \div 2) ELSE v1
  IN  Min(v2, nominal_speed)

\* lines 952-962: vmax_junction_factor as a ratio <= 1
JunctionFactor(current_speed, prev_speed, extruder) ==
  LET dx == current_speed[X_AXIS] - prev_speed[X_AXIS]
      dy == current_speed[Y_AXIS] - prev_speed[Y_AXIS]
      dz == Abs(current_speed[Z_AXIS] - prev_speed[Z_AXIS])
      de == Abs(current_speed[E_AXIS] - prev_speed[E_AXIS])
      jerk == ISqrt(dx * dx + dy * dy)
      f0 == IF jerk > max_xy_jerk THEN << max_xy_jerk, jerk >> ELSE << 1, 1 >>
      f1 == IF dz > max_z_jerk THEN RatMin(f0, << max_z_jerk, dz >>) ELSE f0
  IN  IF de > max_e_jerk[extruder + 1]
      THEN RatMin(f1, << max_e_jerk[extruder + 1], de >>) ELSE f1

\* jerk scaling as soon as one block is queued
MaxJunctionSpeed_eager(current_speed, nominal_speed, extruder, moves_queued, prev_speed, prev_nominal_speed) ==
  IF moves_queued > 0 /\ prev_nominal_speed > 0
  THEN LET f == JunctionFactor(current_speed, prev_speed, extruder)
       IN  Min(prev_nominal_speed, FloorDiv(nominal_speed * f[1], f[2]))
  ELSE SafeJunctionSpeed(current_speed, nominal_speed, extruder)

\* lines 942-965: max_entry_speed of an XYZ move
MaxJunctionSpeed(current_speed, nominal_speed, extruder, moves_queued, prev_speed, prev_nominal_speed) ==
  IF moves_queued > 1 /\ prev_nominal_speed > 0
  THEN LET f == JunctionFactor(current_speed, prev_speed, extruder)
       IN  Min(prev_nominal_speed, FloorDiv(nominal_speed * f[1], f[2]))
  ELSE SafeJunctionSpeed(current_speed, nominal_speed, extruder)

\* lines 724-994: every field of the new block but the trapezoid; block is the
\* slot as PrepareBlock left it.  The result carries the locals the rest of the
\* call reads: current_speed, and safe_speed (line 935) with safe_speed_set
\* telling whether line 937 assigned it (line 949 declares a second safe_speed
\* that hides it in the XYZ branch).
BuildBlock(block, target, pos, feed_rate0, extruder, moves_queued, prev_speed, prev_nominal_speed) ==
  LET feed_rate == FlooredFeedRate(block, feed_rate0)
      delta_mm == DeltaMM(target, pos, extruder)
      no_move == NoMove(block)
      millimeters == Millimeters(block, delta_mm)
      inverse_second == InverseSecond(delta_mm, millimeters, feed_rate, moves_queued)
      nominal_speed0 == FloorDiv(millimeters * inverse_second[1], inverse_second[2])
      nominal_rate0 == CeilDiv(block.step_event_count * inverse_second[1],
                               inverse_second[2])
      current_speed0 == [ i \in Axes |->
                            TruncDiv(delta_mm[i] * inverse_second[1], inverse_second[2]) ]
      speed_factor == SpeedFactor(current_speed0, extruder)
      slower == RatLess(speed_factor, << 1, 1 >>)
      current_speed == IF slower
                       THEN [ i \in Axes |->
                                TruncDiv(current_speed0[i] * speed_factor[1],
                                         speed_factor[2]) ]
                       ELSE current_speed0
      nominal_speed == IF slower
                       THEN FloorDiv(nominal_speed0 * speed_factor[1], speed_factor[2])
                       ELSE nominal_speed0
      nominal_rate == IF slower
                      THEN FloorDiv(nominal_rate0 * speed_factor[1], speed_factor[2])
                      ELSE nominal_rate0
      acceleration_st == AccelerationSt(block, millimeters, extruder)
      accel == FloorDiv(acceleration_st * millimeters, block.step_event_count)
      e_negative == target[E_AXIS] < pos[E_AXIS]
      common == [ block EXCEPT
                    !.fan_speed = fanSpeed[extruder + 1],
                    !.direction_bits = { i \in Axes : target[i] < pos[i] },
                    !.active_extruder = extruder,
                    !.travel = (block.steps_e = 0),
                    !.retract = (no_move /\ block.steps_e # 0 /\ e_negative),
                    !.restore = (no_move /\ block.steps_e # 0 /\ ~e_negative),
                    !.millimeters = millimeters,
                    !.nominal_speed = nominal_speed,
                    !.nominal_rate = nominal_rate,
                    !.acceleration_st = acceleration_st,
                    !.acceleration = accel ]
      e_safe == Min(max_e_jerk[extruder + 1], nominal_speed)
      vmax_junction == MaxJunctionSpeed(current_speed, nominal_speed, extruder,
                                        moves_queued, prev_speed, prev_nominal_speed)
      v_allowable == max_allowable_speed(-accel, MINIMUM_PLANNER_SPEED, millimeters)
  IN  IF no_move
      THEN [ block |-> [ common EXCEPT !.entry_speed = e_safe,
                                       !.max_entry_speed = e_safe ],
             current_speed |-> current_speed,
             safe_speed_set |-> TRUE,
             safe_speed |-> e_safe ]
      ELSE [ block |-> [ common EXCEPT
                           !.max_entry_speed = vmax_junction,
                           !.entry_speed = Min(vmax_junction, v_allowable),
                           !.nominal_length_flag = (nominal_speed <= v_allowable),
                           !.recalculate_flag = TRUE ],
             current_speed |-> current_speed,
             safe_speed_set |-> FALSE,
             safe_speed |-> 0 ]

\* ------------------------------------------------------------------------
\* Look-ahead passes, run to completion (no interrupt in between)
\* ------------------------------------------------------------------------
\* the loop of planner_reverse_pass; b0, b1 are block[0], block[1]
RECURSIVE ReverseLoop(_, _, _, _, _)
ReverseLoop(buf, block_index, tail, b0, b1) ==
  IF block_index = tail THEN buf
  ELSE ReverseLoop(planner_reverse_pass_kernel(buf, b0, b1),
                   prev_block_index(block_index), tail,
                   prev_block_index(block_index), b0)

planner_reverse_pass(buf, head, tail) ==
  IF movesplanned(head, tail) > 3
  THEN ReverseLoop(buf, AndMask(head - 3), tail, NULL, NULL)
  ELSE buf

\* the loop of planner_forward_pass and the call after it; b1, b2 are
\* block[1], block[2]
RECURSIVE ForwardLoop(_, _, _, _, _)
ForwardLoop(buf, block_index, head, b1, b2) ==
  IF block_index = head THEN planner_forward_pass_kernel(buf, b1, b2)
  ELSE ForwardLoop(planner_forward_pass_kernel(buf, b1, b2),
                   next_block_index(block_index), head, b2, block_index)

planner_forward_pass(buf, head, tail) == ForwardLoop(buf, tail, head, NULL, NULL)

\* the loop of planner_recalculate_trapezoids and the newest block after it;
\* next is the block read in the previous iteration
RECURSIVE TrapezoidsLoop(_, _, _, _)
TrapezoidsLoop(buf, block_index, head, next) ==
  IF block_index = head THEN RecalculateTrapezoidLast(buf, next)
  ELSE TrapezoidsLoop(RecalculateTrapezoidPair(buf, next, block_index),
                      next_block_index(block_index), head, block_index)

planner_recalculate_trapezoids(buf, head, tail) == TrapezoidsLoop(buf, tail, head, NULL)

planner_recalculate(buf, head, tail) ==
  planner_recalculate_trapezoids(
    planner_forward_pass(planner_reverse_pass(buf, head, tail), head, tail),
    head, tail)

\* ------------------------------------------------------------------------
\* State
\* ------------------------------------------------------------------------
VARIABLES
  block_buffer,            \* block_t block_buffer[BLOCK_BUFFER_SIZE]
  block_buffer_head,       \* index of the next block to be pushed
  block_buffer_tail,       \* index of the block to process now
  position,                \* long position[NUM_AXIS], in steps
  previous_speed,          \* float previous_speed[NUM_AXIS]
  previous_nominal_speed,  \* float previous_nominal_speed
  last_extruder,           \* uint8_t last_extruder
  current_block,           \* the stepper's block: a slot, or NULL
  destination,             \* the dispatcher's last commanded point, 1/FP mm
  pc,                      \* where the foreground is inside plan_buffer_line
  call,                    \* arguments and locals of the call in progress
  calls,                   \* history: plan_buffer_line calls made
  accepted,                \* history: blocks published by advancing head
  released,                \* history: blocks released by advancing tail
  ticket,                  \* history: per slot, the number of the block last published in it
  written,                 \* history: per slot, how far the current insertion has written it
  active_extruder,         \* the extruder the dispatcher has selected
  wakeups,                 \* history: st_wake_up() calls made
  fan_kick_end,            \* static unsigned long fan_kick_end[EXTRUDERS]
  fan_prev_speed,          \* static uint8_t fan_prev_speed[EXTRUDERS]
  millis,                  \* the millisecond clock
  outputs,                 \* history: what the last check_axes_activity wrote, and when
  line_extruder,           \* history: the extruder argument of the last plan_buffer_line call, or NULL
  reset,                   \* history: the last position reset, and when
  visits,                  \* history: the blocks the running look-ahead pass has handed to its kernel
  queue_start              \* history: the point, in steps, where the oldest queued block starts

vars == << block_buffer, block_buffer_head, block_buffer_tail, position, previous_speed, previous_nominal_speed, last_extruder, current_block, destination, pc, call, calls, accepted, released, ticket, written, active_extruder, wakeups, fan_kick_end, fan_prev_speed, millis, outputs, line_extruder, reset, visits, queue_start >>

\* the extruder the dispatcher has selected (ACTIVE_EXTRUDER)
ACTIVE_EXTRUDER == active_extruder

Extruders == 0 .. (EXTRUDERS - 1)

\* no plan_set_position or plan_set_e_position call made yet
NoReset == [ n |-> 0 ]

\* no look-ahead pass started yet: the pass, its loop iterations, the blocks
\* its kernel got as current, and the << current, next >> pairs among them
NoVisits == [ pass |-> "none", iterations |-> 0, currents |-> << >>, pairs |-> << >> ]

\* no check_axes_activity call made yet
NoOutputs == [ n |-> 0 ]

\* ------------------------------------------------------------------------
\* Bounds and inputs
\* ------------------------------------------------------------------------
\* plan_buffer_line calls in one run
MaxCalls == 7

\* blocks the stepper completes in one run of MaxCalls calls
MaxReleased == 1

\* plan_buffer_line calls in one run with the stepper interrupting
MaxCallsISR == 3

\* plan_buffer_line calls in one run over the ring indices
MaxCallsRing == 9

\* blocks planned and executed before the stepper starts interrupting calls
WarmCalls == 8

Move(x, y, z, e, feed_rate, extruder) ==
  [ x |-> x, y |-> y, z |-> z, e |-> e, feed_rate |-> feed_rate, extruder |-> extruder ]

\* the line commands of the dispatcher, relative to its last commanded point:
\* displacement in 1/FP mm, feed in 1/FP mm/s
Moves ==
  { Move(10, 0, 0, 0, 5000, 0),
    Move(0, 0, 0, -200, 2500, 0),
    Move(0, 0, 10, 0, 100, 0) }

\* the line commands issued while the stepper interrupts calls
MovesISR ==
  { Move(100, 0, 0, 0, 500, 0),
    Move(10, 0, 0, 0, 5000, 0) }

\* the line commands issued over the ring indices: filament only, and a
\* command that repeats the last point
MovesRing ==
  { Move(0, 0, 0, 100, 200, 0),
    Move(0, 0, 0, 0, 200, 0) }

\* the line command of the blocks executed beforehand
WarmMove == Move(1000, 0, 0, 0, 5000, 0)

\* what the never-assigned safe_speed of line 935 may hold when line 997 reads it
UninitSafeSpeed == { 0, 30000 }

\* ------------------------------------------------------------------------
\* Initial state: static storage, then plan_init()
\* ------------------------------------------------------------------------
NoCall ==
  [ move |-> Move(0, 0, 0, 0, 0, 0), next_buffer_head |-> 0,
    target |-> [ i \in Axes |-> 0 ], current_speed |-> [ i \in Axes |-> 0 ],
    safe_speed_set |-> FALSE, safe_speed |-> 0,
    block_index |-> 0, current |-> NULL, next |-> NULL,
    tail |-> 0, block |-> << NULL, NULL, NULL >> ]

Init ==
  /\ block_buffer = [ i \in Slots |-> ZeroBlock ]
  /\ block_buffer_head = 0
  /\ block_buffer_tail = 0
  /\ position = [ i \in Axes |-> 0 ]
  /\ previous_speed = [ i \in Axes |-> 0 ]
  /\ previous_nominal_speed = 0
  /\ last_extruder = 0
  /\ current_block = NULL
  /\ destination = [ i \in Axes |-> 0 ]
  /\ pc = "idle"
  /\ call = NoCall
  /\ calls = 0
  /\ accepted = 0
  /\ released = 0
  /\ ticket = [ i \in Slots |-> 0 ]
  /\ written = [ i \in Slots |-> "stale" ]
  /\ active_extruder = 0
  /\ wakeups = 0
  /\ fan_kick_end = [ e \in Extruders |-> 0 ]
  /\ fan_prev_speed = [ e \in Extruders |-> 0 ]
  /\ millis = 0
  /\ outputs = NoOutputs
  /\ line_extruder = NULL
  /\ reset = NoReset
  /\ visits = NoVisits
  /\ queue_start = [ i \in Axes |-> 0 ]

\* a relative line command of the dispatcher
RelativeMove(d) ==
  Move(destination[X_AXIS] + d.x, destination[Y_AXIS] + d.y, destination[Z_AXIS] + d.z,
       destination[E_AXIS] + d.e, d.feed_rate, d.extruder)

\* ------------------------------------------------------------------------
\* Stepper interrupt: plan_get_current_block / plan_discard_current_block
\* ------------------------------------------------------------------------
StepperClaim ==
  /\ current_block = NULL
  /\ block_buffer_head # block_buffer_tail
  /\ block_buffer' = [ block_buffer EXCEPT ![block_buffer_tail].busy = TRUE ]
  /\ current_block' = block_buffer_tail
  /\ UNCHANGED << block_buffer_head, block_buffer_tail, position, previous_speed, previous_nominal_speed, last_extruder, destination, pc, call, calls, accepted, released, ticket, written, active_extruder, fan_kick_end, fan_prev_speed, millis, outputs, wakeups, line_extruder, reset, visits, queue_start >>

StepperRelease ==
  /\ current_block # NULL
  /\ block_buffer_head # block_buffer_tail
  /\ block_buffer_tail' = AndMask(block_buffer_tail + 1)
  /\ current_block' = NULL
  /\ released' = released + 1
  /\ written' = [ written EXCEPT ![block_buffer_tail] = "stale" ]
  /\ queue_start' = [ i \in Axes |->
                        queue_start[i] + SignedSteps(block_buffer[block_buffer_tail], i) ]
  /\ UNCHANGED << block_buffer, block_buffer_head, position, previous_speed, previous_nominal_speed, last_extruder, destination, pc, call, calls, accepted, ticket, active_extruder, fan_kick_end, fan_prev_speed, millis, outputs, wakeups, line_extruder, reset, visits >>

\* ------------------------------------------------------------------------
\* plan_buffer_line as one uninterrupted call
\* ------------------------------------------------------------------------
\* line 654: the call waits while the buffer is full
BufferFull(head, tail) == tail = next_block_index(head)

\* lines 996-997: the exit factor handed to the first trapezoid
InitialExitFactor(built, garbage) ==
  << IF built.safe_speed_set THEN built.safe_speed ELSE garbage,
     built.block.nominal_speed >>

\* lines 996-997 on the block just built
FirstTrapezoid(built, garbage) ==
  calculate_trapezoid_for_block(built.block,
    << built.block.entry_speed, built.block.nominal_speed >>,
    InitialExitFactor(built, garbage))

\* lines 996-1010 on the buffer: first trapezoid, head advanced, look-ahead
PublishAndRecalculate(buf, head, tail, built, garbage) ==
  planner_recalculate([ buf EXCEPT ![head] = FirstTrapezoid(built, garbage) ],
                      next_block_index(head), tail)

\* the whole call with target m, no interrupt taken while it runs; the call is
\* past its wait loop once the buffer is not full
plan_buffer_line(m, garbage, limit) ==
  LET target == TargetSteps(m.x, m.y, m.z, m.e, m.extruder)
      pos == RescaledPosition(position, last_extruder, m.extruder)
      prepared == PrepareBlock(block_buffer[block_buffer_head], target, pos)
      built == BuildBlock(prepared, target, pos, m.feed_rate, m.extruder,
                          movesplanned(block_buffer_head, block_buffer_tail),
                          previous_speed, previous_nominal_speed)
  IN  /\ pc = "idle"
      /\ calls < limit
      /\ ~BufferFull(block_buffer_head, block_buffer_tail)
      /\ calls' = calls + 1
      /\ line_extruder' = m.extruder
      /\ destination' = [ i \in Axes |-> CASE i = X_AXIS -> m.x [] i = Y_AXIS -> m.y
                                           [] i = Z_AXIS -> m.z [] OTHER -> m.e ]
      /\ IF Dropped(prepared)
         THEN /\ block_buffer' = [ block_buffer EXCEPT ![block_buffer_head] = prepared ]
              /\ position' = pos
              /\ written' = [ written EXCEPT ![block_buffer_head] = "stale" ]
              /\ UNCHANGED << block_buffer_head, previous_speed,
                              previous_nominal_speed, accepted, ticket, wakeups >>
         ELSE /\ block_buffer' = PublishAndRecalculate(block_buffer, block_buffer_head,
                                    block_buffer_tail, built, garbage)
              /\ block_buffer_head' = next_block_index(block_buffer_head)
              /\ position' = target
              /\ previous_speed' = built.current_speed
              /\ previous_nominal_speed' = built.block.nominal_speed
              /\ accepted' = accepted + 1
              /\ ticket' = [ ticket EXCEPT ![block_buffer_head] = accepted + 1 ]
              /\ written' = [ written EXCEPT ![block_buffer_head] = "profile" ]
              /\ wakeups' = wakeups + 1
      /\ UNCHANGED << block_buffer_tail, last_extruder, current_block, pc, call, released, active_extruder, fan_kick_end, fan_prev_speed, millis, outputs, reset, visits, queue_start >>

BufferLine ==
  \E d \in Moves : \E garbage \in UninitSafeSpeed :
    plan_buffer_line(RelativeMove(d), garbage, MaxCalls)

\* the stepper finishing a block, in a run of MaxCalls calls
BlockDone == released < MaxReleased /\ StepperRelease

Next == BufferLine \/ StepperClaim \/ BlockDone

Spec == Init /\ [][Next]_vars

\* ------------------------------------------------------------------------
\* plan_buffer_line step by step, the stepper interrupt enabled between steps
\* ------------------------------------------------------------------------
\* line 651: the call is entered and computes next_buffer_head
FG_Call(m, limit) ==
  /\ pc = "idle"
  /\ calls < limit
  /\ pc' = "wait"
  /\ call' = [ NoCall EXCEPT !.move = m,
                             !.next_buffer_head = next_block_index(block_buffer_head) ]
  /\ calls' = calls + 1
  /\ line_extruder' = m.extruder
  /\ destination' = [ i \in Axes |-> CASE i = X_AXIS -> m.x [] i = Y_AXIS -> m.y
                                       [] i = Z_AXIS -> m.z [] OTHER -> m.e ]
  /\ UNCHANGED << block_buffer, block_buffer_head, block_buffer_tail, position, previous_speed, previous_nominal_speed, last_extruder, current_block, accepted, released, ticket, written, active_extruder, fan_kick_end, fan_prev_speed, millis, outputs, wakeups, reset, visits, queue_start >>

\* a call that does not wait
FG_WaitBlind ==
  /\ pc = "wait"
  /\ pc' = "build"
  /\ UNCHANGED << block_buffer, block_buffer_head, block_buffer_tail, position, previous_speed, previous_nominal_speed, last_extruder, current_block, destination, call, calls, accepted, released, ticket, written, active_extruder, fan_kick_end, fan_prev_speed, millis, outputs, wakeups, line_extruder, reset, visits, queue_start >>

\* lines 654-659: the wait loop is left once the buffer has room
FG_Wait ==
  /\ pc = "wait"
  /\ block_buffer_tail # call.next_buffer_head
  /\ pc' = "build"
  /\ UNCHANGED << block_buffer, block_buffer_head, block_buffer_tail, position, previous_speed, previous_nominal_speed, last_extruder, current_block, destination, call, calls, accepted, released, ticket, written, active_extruder, fan_kick_end, fan_prev_speed, millis, outputs, wakeups, line_extruder, reset, visits, queue_start >>

\* lines 664-994: the block is prepared in block_buffer[block_buffer_head] and,
\* unless it is dropped at line 719, built
FG_Build ==
  LET m == call.move
      target == TargetSteps(m.x, m.y, m.z, m.e, m.extruder)
      pos == RescaledPosition(position, last_extruder, m.extruder)
      prepared == PrepareBlock(block_buffer[block_buffer_head], target, pos)
      built == BuildBlock(prepared, target, pos, m.feed_rate, m.extruder,
                          movesplanned(block_buffer_head, block_buffer_tail),
                          previous_speed, previous_nominal_speed)
  IN  /\ pc = "build"
      /\ position' = pos
      /\ IF Dropped(prepared)
         THEN /\ block_buffer' = [ block_buffer EXCEPT ![block_buffer_head] = prepared ]
              /\ written' = [ written EXCEPT ![block_buffer_head] = "stale" ]
              /\ pc' = "idle"
              /\ call' = NoCall
         ELSE /\ block_buffer' = [ block_buffer EXCEPT ![block_buffer_head] = built.block ]
              /\ written' = [ written EXCEPT ![block_buffer_head] = "fields" ]
              /\ pc' = "trapezoid"
              /\ call' = [ call EXCEPT !.target = target,
                                       !.current_speed = built.current_speed,
                                       !.safe_speed_set = built.safe_speed_set,
                                       !.safe_speed = built.safe_speed ]
      /\ UNCHANGED << block_buffer_head, block_buffer_tail, previous_speed, previous_nominal_speed, last_extruder, current_block, destination, calls, accepted, released, ticket, active_extruder, fan_kick_end, fan_prev_speed, millis, outputs, wakeups, line_extruder, reset, visits, queue_start >>

\* a call that publishes without its first trapezoid
FG_TrapezoidSkipped ==
  /\ pc = "trapezoid"
  /\ pc' = "publish"
  /\ UNCHANGED << block_buffer, block_buffer_head, block_buffer_tail, position, previous_speed, previous_nominal_speed, last_extruder, current_block, destination, call, calls, accepted, released, ticket, written, active_extruder, fan_kick_end, fan_prev_speed, millis, outputs, wakeups, line_extruder, reset, visits, queue_start >>

\* lines 996-997: the first trapezoid of the new block
FG_Trapezoid ==
  /\ pc = "trapezoid"
  /\ \E garbage \in UninitSafeSpeed :
       block_buffer' = [ block_buffer EXCEPT ![block_buffer_head] =
         FirstTrapezoid([ block |-> block_buffer[block_buffer_head],
                          safe_speed_set |-> call.safe_speed_set,
                          safe_speed |-> call.safe_speed ], garbage) ]
  /\ written' = [ written EXCEPT ![block_buffer_head] =
                    IF block_buffer[block_buffer_head].busy THEN @ ELSE "profile" ]
  /\ pc' = "publish"
  /\ UNCHANGED << block_buffer_head, block_buffer_tail, position, previous_speed, previous_nominal_speed, last_extruder, current_block, destination, call, calls, accepted, released, ticket, active_extruder, fan_kick_end, fan_prev_speed, millis, outputs, wakeups, line_extruder, reset, visits, queue_start >>

\* lines 1000-1007: junction memory, head advanced, position
FG_Publish ==
  /\ pc = "publish"
  /\ previous_speed' = call.current_speed
  /\ previous_nominal_speed' = block_buffer[block_buffer_head].nominal_speed
  /\ block_buffer_head' = call.next_buffer_head
  /\ position' = call.target
  /\ accepted' = accepted + 1
  /\ ticket' = [ ticket EXCEPT ![block_buffer_head] = accepted + 1 ]
  /\ pc' = "reverse"
  /\ UNCHANGED << block_buffer, block_buffer_tail, last_extruder, current_block, destination, call, calls, released, written, active_extruder, fan_kick_end, fan_prev_speed, millis, outputs, wakeups, line_extruder, reset, visits, queue_start >>

\* lines 321-341: the reverse pass, tail read once at its start
FG_Reverse ==
  /\ pc = "reverse"
  /\ block_buffer' = planner_reverse_pass(block_buffer, block_buffer_head, block_buffer_tail)
  /\ pc' = "forward"
  /\ UNCHANGED << block_buffer_head, block_buffer_tail, position, previous_speed, previous_nominal_speed, last_extruder, current_block, destination, call, calls, accepted, released, ticket, written, active_extruder, fan_kick_end, fan_prev_speed, millis, outputs, wakeups, line_extruder, reset, visits, queue_start >>

\* lines 369-382: the forward pass, tail read once at its start
FG_Forward ==
  /\ pc = "forward"
  /\ block_buffer' = planner_forward_pass(block_buffer, block_buffer_head, block_buffer_tail)
  /\ pc' = "trapezoids_init"
  /\ UNCHANGED << block_buffer_head, block_buffer_tail, position, previous_speed, previous_nominal_speed, last_extruder, current_block, destination, call, calls, accepted, released, ticket, written, active_extruder, fan_kick_end, fan_prev_speed, millis, outputs, wakeups, line_extruder, reset, visits, queue_start >>

\* lines 418-421: the locals of planner_recalculate_trapezoids
FG_TrapezoidsInit ==
  /\ pc = "trapezoids_init"
  /\ call' = [ call EXCEPT !.block_index = block_buffer_tail, !.current = NULL, !.next = NULL ]
  /\ pc' = "trapezoids"
  /\ UNCHANGED << block_buffer, block_buffer_head, block_buffer_tail, position, previous_speed, previous_nominal_speed, last_extruder, current_block, destination, calls, accepted, released, ticket, written, active_extruder, fan_kick_end, fan_prev_speed, millis, outputs, wakeups, line_extruder, reset, visits, queue_start >>

\* lines 423-446: one iteration of the loop
FG_TrapezoidsStep ==
  /\ pc = "trapezoids"
  /\ call.block_index # block_buffer_head
  /\ block_buffer' = RecalculateTrapezoidPair(block_buffer, call.next, call.block_index)
  /\ call' = [ call EXCEPT !.current = call.next, !.next = call.block_index,
                           !.block_index = next_block_index(call.block_index) ]
  /\ UNCHANGED << block_buffer_head, block_buffer_tail, position, previous_speed, previous_nominal_speed, last_extruder, current_block, destination, pc, calls, accepted, released, ticket, written, active_extruder, fan_kick_end, fan_prev_speed, millis, outputs, wakeups, line_extruder, reset, visits, queue_start >>

\* lines 448-463 and 1012: the newest block, then the call returns
FG_TrapezoidsLast ==
  /\ pc = "trapezoids"
  /\ call.block_index = block_buffer_head
  /\ block_buffer' = RecalculateTrapezoidLast(block_buffer, call.next)
  /\ pc' = "idle"
  /\ call' = NoCall
  /\ wakeups' = wakeups + 1
  /\ UNCHANGED << block_buffer_head, block_buffer_tail, position, previous_speed, previous_nominal_speed, last_extruder, current_block, destination, calls, accepted, released, ticket, written, active_extruder, fan_kick_end, fan_prev_speed, millis, outputs, line_extruder, reset, visits, queue_start >>

FG_Enter == \E d \in MovesISR : FG_Call(RelativeMove(d), WarmCalls + MaxCallsISR)

Foreground ==
  \/ FG_Wait \/ FG_Build \/ FG_Trapezoid \/ FG_Publish \/ FG_Reverse
  \/ FG_Forward \/ FG_TrapezoidsInit \/ FG_TrapezoidsStep \/ FG_TrapezoidsLast

NextISR == FG_Enter \/ Foreground \/ StepperClaim \/ StepperRelease

\* the planner after one more line to (x, 0, 0, 0) was planned on an empty
\* queue and its block executed: the call, the stepper's claim, its release
Executed(st, x, feed_rate, garbage) ==
  LET target == TargetSteps(x, 0, 0, 0, 0)
      pos == RescaledPosition(st.position, 0, 0)
      prepared == PrepareBlock(st.block_buffer[st.head], target, pos)
      built == BuildBlock(prepared, target, pos, feed_rate, 0, 0,
                          st.previous_speed, st.previous_nominal_speed)
      buf == PublishAndRecalculate(st.block_buffer, st.head, st.head, built, garbage)
  IN  [ block_buffer |-> [ buf EXCEPT ![st.head].busy = TRUE ],
        head |-> next_block_index(st.head),
        position |-> target,
        previous_speed |-> built.current_speed,
        previous_nominal_speed |-> built.block.nominal_speed,
        executed |-> st.executed + 1,
        ticket |-> [ st.ticket EXCEPT ![st.head] = st.executed + 1 ] ]

\* the planner after n such lines, each WarmMove further (a one-element set)
RECURSIVE WarmUp(_, _)
WarmUp(n, garbage) ==
  IF n = 0
  THEN { [ block_buffer |-> [ i \in Slots |-> ZeroBlock ], head |-> 0,
           position |-> [ i \in Axes |-> 0 ], previous_speed |-> [ i \in Axes |-> 0 ],
           previous_nominal_speed |-> 0, executed |-> 0, ticket |-> [ i \in Slots |-> 0 ] ] }
  ELSE { Executed(st, n * WarmMove.x, WarmMove.feed_rate, garbage) : st \in WarmUp(n - 1, garbage) }

\* every slot of the ring has held an executed block
InitReused ==
  \E garbage \in UninitSafeSpeed :
    \E st \in WarmUp(WarmCalls, garbage) :
        /\ block_buffer = st.block_buffer
        /\ block_buffer_head = st.head
        /\ block_buffer_tail = st.head
        /\ position = st.position
        /\ previous_speed = st.previous_speed
        /\ previous_nominal_speed = st.previous_nominal_speed
        /\ last_extruder = 0
        /\ current_block = NULL
        /\ destination = [ i \in Axes |-> IF i = X_AXIS THEN WarmCalls * WarmMove.x ELSE 0 ]
        /\ pc = "idle"
        /\ call = NoCall
        /\ calls = st.executed
        /\ accepted = st.executed
        /\ released = st.executed
        /\ ticket = st.ticket
        /\ written = [ i \in Slots |-> "stale" ]
        /\ active_extruder = 0
        /\ wakeups = st.executed
        /\ fan_kick_end = [ e \in Extruders |-> 0 ]
        /\ fan_prev_speed = [ e \in Extruders |-> 0 ]
        /\ millis = 0
        /\ outputs = NoOutputs
        /\ line_extruder = WarmMove.extruder
        /\ reset = NoReset
        /\ visits = NoVisits
        /\ queue_start = st.position

SpecISR == InitReused /\ [][NextISR]_vars

RingEnter == \E d \in MovesRing : FG_Call(RelativeMove(d), MaxCallsRing)

NextRing == RingEnter \/ Foreground \/ StepperClaim \/ StepperRelease

SpecRing == Init /\ [][NextRing]_vars

\* the foreground moves on: inside a call and not held in the wait loop, it
\* reaches its next step
ForegroundRuns ==
  /\ pc # "idle"
  /\ pc = "wait" => block_buffer_tail # call.next_buffer_head
  /\ pc' \in { "idle", "build", "trapezoid", "publish", "reverse", "forward", "trapezoids_init", "trapezoids" }

\* the foreground runs whenever it is not interrupted, and the stepper
\* interrupt keeps firing
SpecRingFair ==
  SpecRing /\ WF_pc(ForegroundRuns) /\ WF_vars(StepperClaim) /\ WF_vars(StepperRelease)

\* ------------------------------------------------------------------------
\* Uninterrupted calls on short, slow and second-extruder lines
\* ------------------------------------------------------------------------
\* plan_buffer_line calls in one run of short, slow and second-extruder lines
MaxCallsEdge == 3

\* the line commands: X by 0.06 mm (5 steps) and by 0.07 mm (6 steps), the
\* 10 mm legs of a corner at 50 mm/s, filament by 1 mm, lines naming the
\* second extruder, and filament by 1 mm while Z creeps by 0.06 mm (5 steps)
MovesEdge ==
  { Move(6, 0, 0, 0, 5000, 0),
    Move(7, 0, 0, 0, 5000, 0),
    Move(1000, 0, 0, 0, 5000, 0),
    Move(0, 1000, 0, 0, 5000, 0),
    Move(0, 0, 0, 100, 200, 0),
    Move(0, 0, 0, 0, 200, 1),
    Move(0, 0, 0, 100, 200, 1),
    Move(0, 0, 6, 100, 200, 0) }

EdgeLine ==
  \E d \in MovesEdge : \E garbage \in UninitSafeSpeed :
    plan_buffer_line(RelativeMove(d), garbage, MaxCallsEdge)

NextEdge == EdgeLine \/ StepperClaim \/ StepperRelease

SpecEdge == Init /\ [][NextEdge]_vars

\* plan_buffer_line calls in one run that ends in a crawl
MaxCallsSlow == 4

\* the line commands: X by 10 mm and by 0.65 mm at 100 mm/s, X by 0.1 mm at
\* 0.01 mm/s
MovesSlow ==
  { Move(1000, 0, 0, 0, 10000, 0),
    Move(65, 0, 0, 0, 10000, 0),
    Move(10, 0, 0, 0, 1, 0) }

SlowLine ==
  \E d \in MovesSlow : \E garbage \in UninitSafeSpeed :
    plan_buffer_line(RelativeMove(d), garbage, MaxCallsSlow)

NextSlow == SlowLine \/ StepperClaim \/ StepperRelease

SpecSlow == Init /\ [][NextSlow]_vars

\* ------------------------------------------------------------------------
\* Position resets: plan_set_position, plan_set_e_position
\* ------------------------------------------------------------------------
\* plan_buffer_line calls in one run with position resets
MaxCallsReset == 2

\* position resets in one run
MaxResets == 2

\* the points a reset names, in 1/FP mm
ResetPoints ==
  { << 0, 0, 0, 0 >>, << 6, 0, 0, 100 >>, << 1003, -7, 33, -251 >> }

\* the line commands issued between resets; the dispatcher passes the
\* extruder it has selected
MovesReset ==
  { Move(1000, 0, 0, 0, 5000, 0),
    Move(0, 0, 0, 0, 5000, 0) }

\* lines 1017-1020: the point in steps, E in the steps of ACTIVE_EXTRUDER
SetPositionSteps_E0(x, y, z, e) == TargetSteps(x, y, z, e, 0)

SetPositionSteps(x, y, z, e) == TargetSteps(x, y, z, e, ACTIVE_EXTRUDER)

\* a reset that keeps the junction memory
plan_set_position_keeping(x, y, z, e) ==
  /\ pc = "idle"
  /\ block_buffer_head = block_buffer_tail
  /\ reset.n < MaxResets
  /\ position' = SetPositionSteps(x, y, z, e)
  /\ queue_start' = SetPositionSteps(x, y, z, e)
  /\ last_extruder' = ACTIVE_EXTRUDER
  /\ destination' = [ i \in Axes |-> CASE i = X_AXIS -> x [] i = Y_AXIS -> y
                                       [] i = Z_AXIS -> z [] OTHER -> e ]
  /\ reset' = [ n |-> reset.n + 1, e_only |-> FALSE, calls |-> calls,
                extruder |-> ACTIVE_EXTRUDER ]
  /\ UNCHANGED << block_buffer, block_buffer_head, block_buffer_tail, previous_speed, previous_nominal_speed, current_block, pc, call, calls, accepted, released, ticket, written, active_extruder, wakeups, fan_kick_end, fan_prev_speed, millis, outputs, line_extruder, visits >>

\* lines 1015-1028, called by the dispatcher on an empty queue; the
\* dispatcher's own point follows
plan_set_position(x, y, z, e) ==
  /\ pc = "idle"
  /\ block_buffer_head = block_buffer_tail
  /\ reset.n < MaxResets
  /\ position' = SetPositionSteps(x, y, z, e)
  /\ queue_start' = SetPositionSteps(x, y, z, e)
  /\ last_extruder' = ACTIVE_EXTRUDER
  /\ previous_nominal_speed' = 0
  /\ previous_speed' = [ i \in Axes |-> 0 ]
  /\ destination' = [ i \in Axes |-> CASE i = X_AXIS -> x [] i = Y_AXIS -> y
                                       [] i = Z_AXIS -> z [] OTHER -> e ]
  /\ reset' = [ n |-> reset.n + 1, e_only |-> FALSE, calls |-> calls,
                extruder |-> ACTIVE_EXTRUDER ]
  /\ UNCHANGED << block_buffer, block_buffer_head, block_buffer_tail, current_block, pc, call, calls, accepted, released, ticket, written, active_extruder, wakeups, fan_kick_end, fan_prev_speed, millis, outputs, line_extruder, visits >>

\* lines 1030-1035, called by the dispatcher on an empty queue
plan_set_e_position(e) ==
  /\ pc = "idle"
  /\ block_buffer_head = block_buffer_tail
  /\ reset.n < MaxResets
  /\ position' = [ position EXCEPT
                     ![E_AXIS] = RoundDiv(e * StepsPerUnit(E_AXIS + ACTIVE_EXTRUDER), FP) ]
  /\ queue_start' = [ queue_start EXCEPT
                        ![E_AXIS] = RoundDiv(e * StepsPerUnit(E_AXIS + ACTIVE_EXTRUDER), FP) ]
  /\ last_extruder' = ACTIVE_EXTRUDER
  /\ destination' = [ destination EXCEPT ![E_AXIS] = e ]
  /\ reset' = [ n |-> reset.n + 1, e_only |-> TRUE, calls |-> calls,
                extruder |-> ACTIVE_EXTRUDER ]
  /\ UNCHANGED << block_buffer, block_buffer_head, block_buffer_tail, previous_speed, previous_nominal_speed, current_block, pc, call, calls, accepted, released, ticket, written, active_extruder, wakeups, fan_kick_end, fan_prev_speed, millis, outputs, line_extruder, visits >>

\* the dispatcher selects the other extruder
ToolChange ==
  /\ pc = "idle"
  /\ active_extruder' = 1 - active_extruder
  /\ UNCHANGED << block_buffer, block_buffer_head, block_buffer_tail, position, previous_speed, previous_nominal_speed, last_extruder, current_block, destination, pc, call, calls, accepted, released, ticket, written, wakeups, fan_kick_end, fan_prev_speed, millis, outputs, line_extruder, reset, visits, queue_start >>

SetPosition == \E p \in ResetPoints : plan_set_position(p[1], p[2], p[3], p[4])

SetEPosition == \E p \in ResetPoints : plan_set_e_position(p[4])

ResetLine ==
  \E d \in MovesReset : \E garbage \in UninitSafeSpeed :
    plan_buffer_line([ RelativeMove(d) EXCEPT !.extruder = ACTIVE_EXTRUDER ],
                     garbage, MaxCallsReset)

NextReset ==
  \/ ResetLine \/ SetPosition \/ SetEPosition \/ ToolChange
  \/ StepperClaim \/ StepperRelease

SpecReset == Init /\ [][NextReset]_vars

\* ------------------------------------------------------------------------
\* check_axes_activity
\* ------------------------------------------------------------------------
\* the disable-on-idle policy of the build (Configuration.h)
DISABLE_X == TRUE

DISABLE_Y == FALSE

DISABLE_Z == TRUE

DISABLE_E == TRUE

\* clock ticks (millis) a fan is driven at full power when its speed goes up
FAN_KICKSTART_TIME == 2

\* the PWM value of a kick-start
FAN_FULL == 255

\* plan_buffer_line calls, check_axes_activity calls and clock ticks in one
\* run with check_axes_activity
MaxCallsAxes == 2

MaxChecks == 2

MaxMillis == 3

\* the slots a scan from the second queued block would visit
ScanIndices_skipping_tail ==
  { i \in 0 .. (BLOCK_BUFFER_SIZE - 1) :
      /\ (i - block_buffer_tail) % BLOCK_BUFFER_SIZE
           < (block_buffer_head - block_buffer_tail) % BLOCK_BUFFER_SIZE
      /\ i # block_buffer_tail }

\* lines 553-566: the slots the scan visits, tail up to head
ScanIndices ==
  { i \in 0 .. (BLOCK_BUFFER_SIZE - 1) :
      (i - block_buffer_tail) % BLOCK_BUFFER_SIZE
        < (block_buffer_head - block_buffer_tail) % BLOCK_BUFFER_SIZE }

AxisSteps(block, axis) ==
  CASE axis = X_AXIS -> block.steps_x
    [] axis = Y_AXIS -> block.steps_y
    [] axis = Z_AXIS -> block.steps_z
    [] OTHER         -> block.steps_e

\* lines 545-548, 561-564: x_active .. e_active, unsigned char counters
AxisActive(axis) ==
  Cardinality({ i \in ScanIndices : AxisSteps(block_buffer[i], axis) # 0 }) % 256

DisablePolicy(axis) ==
  CASE axis = X_AXIS -> DISABLE_X
    [] axis = Y_AXIS -> DISABLE_Y
    [] axis = Z_AXIS -> DISABLE_Z
    [] OTHER         -> DISABLE_E

\* lines 568-576: the axes whose motors are switched off (E stands for
\* disable_e0, disable_e1 and disable_e2 together)
DisableCommands == { axis \in Axes : DisablePolicy(axis) /\ AxisActive(axis) = 0 }

\* lines 552-557: tail_fan_speed[e] before the fan loop
TailFanSpeed(e) ==
  IF /\ block_buffer_tail # block_buffer_head
     /\ block_buffer[block_buffer_tail].active_extruder = e
  THEN block_buffer[block_buffer_tail].fan_speed
  ELSE fanSpeed[e + 1]

\* a kick-start that lasts for one call only
FanKick_once(e) ==
  LET t == TailFanSpeed(e)
  IN  IF t > fan_prev_speed[e]
      THEN IF fan_kick_end[e] = 0
           THEN [ pwm |-> FAN_FULL, kick_end |-> millis + FAN_KICKSTART_TIME,
                  prev |-> fan_prev_speed[e] ]
           ELSE [ pwm |-> t, kick_end |-> fan_kick_end[e], prev |-> t ]
      ELSE [ pwm |-> t, kick_end |-> 0, prev |-> t ]

\* lines 593-608: the PWM value for the fan of extruder e and the new
\* fan_kick_end[e], fan_prev_speed[e]
FanKick(e) ==
  LET t == TailFanSpeed(e)
  IN  IF t > fan_prev_speed[e]
      THEN IF fan_kick_end[e] = 0
           THEN [ pwm |-> FAN_FULL, kick_end |-> millis + FAN_KICKSTART_TIME,
                  prev |-> fan_prev_speed[e] ]
           ELSE IF fan_kick_end[e] > millis
                THEN [ pwm |-> FAN_FULL, kick_end |-> fan_kick_end[e],
                       prev |-> fan_prev_speed[e] ]
                ELSE [ pwm |-> t, kick_end |-> fan_kick_end[e], prev |-> t ]
      ELSE [ pwm |-> t, kick_end |-> 0, prev |-> t ]

\* lines 543-640, called from the main loop between commands.  outputs keeps
\* what the call sent to the I/O layer (the axes disabled, the PWM value
\* written to FAN_PIN) and the counters and the extruder selection of the
\* moment.
check_axes_activity ==
  /\ pc = "idle"
  /\ outputs.n < MaxChecks
  /\ LET k == FanKick(ACTIVE_EXTRUDER)
     IN  /\ fan_kick_end' = [ fan_kick_end EXCEPT ![ACTIVE_EXTRUDER] = k.kick_end ]
         /\ fan_prev_speed' = [ fan_prev_speed EXCEPT ![ACTIVE_EXTRUDER] = k.prev ]
         /\ outputs' = [ n |-> outputs.n + 1,
                         disable |-> DisableCommands,
                         fan |-> k.pwm,
                         calls |-> calls, released |-> released,
                         current_block |-> current_block,
                         extruder |-> ACTIVE_EXTRUDER ]
  /\ UNCHANGED << block_buffer, block_buffer_head, block_buffer_tail, position, previous_speed, previous_nominal_speed, last_extruder, current_block, destination, pc, call, calls, accepted, released, ticket, written, active_extruder, wakeups, millis, line_extruder, reset, visits, queue_start >>

\* the clock of millis() advances
Tick ==
  /\ millis < MaxMillis
  /\ millis' = millis + 1
  /\ UNCHANGED << block_buffer, block_buffer_head, block_buffer_tail, position, previous_speed, previous_nominal_speed, last_extruder, current_block, destination, pc, call, calls, accepted, released, ticket, written, active_extruder, wakeups, fan_kick_end, fan_prev_speed, outputs, line_extruder, reset, visits, queue_start >>

\* the line commands issued between the checks, for the selected extruder
MovesAxes ==
  { Move(1000, 0, 0, 0, 5000, 0),
    Move(0, 0, 100, 0, 200, 0),
    Move(0, 0, 0, 100, 200, 0) }

AxesLine ==
  \E d \in MovesAxes : \E garbage \in UninitSafeSpeed :
    plan_buffer_line([ RelativeMove(d) EXCEPT !.extruder = ACTIVE_EXTRUDER ],
                     garbage, MaxCallsAxes)

NextAxes ==
  \/ AxesLine \/ check_axes_activity \/ Tick \/ ToolChange
  \/ StepperClaim \/ StepperRelease

SpecAxes == Init /\ [][NextAxes]_vars

\* ------------------------------------------------------------------------
\* calculate_trapezoid_for_block on its own: the blocks it can be handed,
\* zero acceleration included (acceleration and the per-axis limits are
\* settings the dispatcher may change, M201/M204)
\* ------------------------------------------------------------------------
\* calls of calculate_trapezoid_for_block on one block
MaxCallsTrap == 2

\* blocks as plan_buffer_line leaves them before the first trapezoid, the
\* rates being those of the slot's last use
TrapBlocks ==
  { [ ZeroBlock EXCEPT !.busy = busy, !.steps_x = n, !.step_event_count = n,
                       !.nominal_rate = nominal_rate,
                       !.acceleration_st = acceleration_st,
                       !.initial_rate = initial_rate, !.final_rate = final_rate ] :
      busy \in BOOLEAN, n \in { 8, 100 }, nominal_rate \in { 80, 120, 800, 4000 },
      acceleration_st \in { 0, 3000, 300000 },
      initial_rate \in { 0, 120, 800 }, final_rate \in { 0, 120, 4000 } }

\* entry and exit factors, as ratios
TrapFactors == { << 0, 1 >>, << 1, 2 >>, << 1, 1 >> }

InitTrap ==
  /\ block_buffer \in { [ i \in Slots |-> IF i = 0 THEN b ELSE ZeroBlock ] : b \in TrapBlocks }
  /\ block_buffer_head = 1
  /\ block_buffer_tail = 0
  /\ position = [ i \in Axes |-> 0 ]
  /\ previous_speed = [ i \in Axes |-> 0 ]
  /\ previous_nominal_speed = 0
  /\ last_extruder = 0
  /\ current_block \in { c \in { NULL, 0 } : (c = 0) <=> block_buffer[0].busy }
  /\ destination = [ i \in Axes |-> 0 ]
  /\ pc = "idle"
  /\ call = NoCall
  /\ calls = 0
  /\ accepted = 1
  /\ released = 0
  /\ ticket = [ i \in Slots |-> IF i = 0 THEN 1 ELSE 0 ]
  /\ written = [ i \in Slots |-> IF i = 0 THEN "profile" ELSE "stale" ]
  /\ active_extruder = 0
  /\ wakeups = 0
  /\ fan_kick_end = [ e \in Extruders |-> 0 ]
  /\ fan_prev_speed = [ e \in Extruders |-> 0 ]
  /\ millis = 0
  /\ outputs = NoOutputs
  /\ line_extruder = NULL
  /\ reset = NoReset
  /\ visits = NoVisits
  /\ queue_start = [ i \in Axes |-> IF i = X_AXIS THEN -block_buffer[0].steps_x ELSE 0 ]

\* one call of calculate_trapezoid_for_block on the block
TrapezoidCall ==
  /\ calls < MaxCallsTrap
  /\ \E entry_factor \in TrapFactors, exit_factor \in TrapFactors :
       block_buffer' = [ block_buffer EXCEPT ![0] =
                           calculate_trapezoid_for_block(block_buffer[0], entry_factor, exit_factor) ]
  /\ calls' = calls + 1
  /\ UNCHANGED << block_buffer_head, block_buffer_tail, position, previous_speed, previous_nominal_speed, last_extruder, current_block, destination, pc, call, accepted, released, ticket, written, active_extruder, wakeups, fan_kick_end, fan_prev_speed, millis, outputs, line_extruder, reset, visits, queue_start >>

NextTrap == TrapezoidCall

SpecTrap == InitTrap /\ [][NextTrap]_vars

\* ------------------------------------------------------------------------
\* planner_recalculate loop iteration by loop iteration, the stepper interrupt
\* enabled between iterations
\* ------------------------------------------------------------------------
\* plan_buffer_line calls in one run with the passes taken one iteration at a time
MaxCallsLook == 1

\* blocks planned before the stepper is started
QueuedCalls == 6

\* the planner after one more line to (x, 0, 0, 0) was planned with the
\* stepper not yet started
Planned(st, x, feed_rate, garbage) ==
  LET target == TargetSteps(x, 0, 0, 0, 0)
      pos == RescaledPosition(st.position, 0, 0)
      prepared == PrepareBlock(st.block_buffer[st.head], target, pos)
      built == BuildBlock(prepared, target, pos, feed_rate, 0,
                          movesplanned(st.head, 0),
                          st.previous_speed, st.previous_nominal_speed)
  IN  [ block_buffer |-> PublishAndRecalculate(st.block_buffer, st.head, 0, built, garbage),
        head |-> next_block_index(st.head),
        position |-> target,
        previous_speed |-> built.current_speed,
        previous_nominal_speed |-> built.block.nominal_speed,
        executed |-> 0,
        ticket |-> [ st.ticket EXCEPT ![st.head] = st.head + 1 ] ]

\* the planner after n such lines, each WarmMove further (a one-element set)
RECURSIVE QueueUp(_, _)
QueueUp(n, garbage) ==
  IF n = 0
  THEN { [ block_buffer |-> [ i \in Slots |-> ZeroBlock ], head |-> 0,
           position |-> [ i \in Axes |-> 0 ], previous_speed |-> [ i \in Axes |-> 0 ],
           previous_nominal_speed |-> 0, executed |-> 0, ticket |-> [ i \in Slots |-> 0 ] ] }
  ELSE { Planned(st, n * WarmMove.x, WarmMove.feed_rate, garbage) : st \in QueueUp(n - 1, garbage) }

\* QueuedCalls blocks wait in the queue, none of them started
InitLook ==
  \E garbage \in UninitSafeSpeed :
    \E st \in QueueUp(QueuedCalls, garbage) :
        /\ block_buffer = st.block_buffer
        /\ block_buffer_head = st.head
        /\ block_buffer_tail = 0
        /\ position = st.position
        /\ previous_speed = st.previous_speed
        /\ previous_nominal_speed = st.previous_nominal_speed
        /\ last_extruder = 0
        /\ current_block = NULL
        /\ destination = [ i \in Axes |-> IF i = X_AXIS THEN QueuedCalls * WarmMove.x ELSE 0 ]
        /\ pc = "idle"
        /\ call = NoCall
        /\ calls = QueuedCalls
        /\ accepted = QueuedCalls
        /\ released = 0
        /\ ticket = st.ticket
        /\ written = [ i \in Slots |-> IF i < st.head THEN "profile" ELSE "stale" ]
        /\ active_extruder = 0
        /\ wakeups = QueuedCalls
        /\ fan_kick_end = [ e \in Extruders |-> 0 ]
        /\ fan_prev_speed = [ e \in Extruders |-> 0 ]
        /\ millis = 0
        /\ outputs = NoOutputs
        /\ line_extruder = WarmMove.extruder
        /\ reset = NoReset
        /\ visits = NoVisits
        /\ queue_start = [ i \in Axes |-> 0 ]

\* a kernel call, or a loop body, on current and next (NULL: no block)
Visited(v, current, next) ==
  [ v EXCEPT !.currents = IF current # NULL THEN Append(@, current) ELSE @,
             !.pairs = IF current # NULL /\ next # NULL
                       THEN Append(@, << current, next >>) ELSE @ ]

\* lines 322-331: tail copied, the depth tested, block_index set
LK_ReverseInit ==
  /\ pc = "reverse"
  /\ IF movesplanned(block_buffer_head, block_buffer_tail) > 3
     THEN /\ call' = [ call EXCEPT !.tail = block_buffer_tail,
                                   !.block_index = AndMask(block_buffer_head - 3),
                                   !.block = << NULL, NULL, NULL >> ]
          /\ pc' = "reverse_loop"
     ELSE /\ call' = [ call EXCEPT !.tail = block_buffer_tail,
                                   !.block_index = block_buffer_head ]
          /\ pc' = "forward_init"
  /\ visits' = [ NoVisits EXCEPT !.pass = "reverse" ]
  /\ UNCHANGED << block_buffer, block_buffer_head, block_buffer_tail, position, previous_speed, previous_nominal_speed, last_extruder, current_block, destination, calls, accepted, released, ticket, written, active_extruder, wakeups, fan_kick_end, fan_prev_speed, millis, outputs, line_extruder, reset, queue_start >>

\* an iteration that steps its index back over a slot
LK_ReverseStep_skipping ==
  /\ pc = "reverse_loop"
  /\ call.block_index # call.tail
  /\ LET block_index == AndMask(call.block_index - 2 + BLOCK_BUFFER_SIZE)
         block == << block_index, call.block[1], call.block[2] >>
     IN  /\ block_buffer' = planner_reverse_pass_kernel(block_buffer, block[2], block[3])
         /\ call' = [ call EXCEPT !.block_index = block_index, !.block = block ]
         /\ visits' = [ Visited(visits, block[2], block[3]) EXCEPT !.iterations = @ + 1 ]
  /\ UNCHANGED << block_buffer_head, block_buffer_tail, position, previous_speed, previous_nominal_speed, last_extruder, current_block, destination, pc, calls, accepted, released, ticket, written, active_extruder, wakeups, fan_kick_end, fan_prev_speed, millis, outputs, line_extruder, reset, queue_start >>

\* lines 334-340: one iteration of the loop of planner_reverse_pass
LK_ReverseStep ==
  /\ pc = "reverse_loop"
  /\ call.block_index # call.tail
  /\ LET block_index == prev_block_index(call.block_index)
         block == << block_index, call.block[1], call.block[2] >>
     IN  /\ block_buffer' = planner_reverse_pass_kernel(block_buffer, block[2], block[3])
         /\ call' = [ call EXCEPT !.block_index = block_index, !.block = block ]
         /\ visits' = [ Visited(visits, block[2], block[3]) EXCEPT !.iterations = @ + 1 ]
  /\ UNCHANGED << block_buffer_head, block_buffer_tail, position, previous_speed, previous_nominal_speed, last_extruder, current_block, destination, pc, calls, accepted, released, ticket, written, active_extruder, wakeups, fan_kick_end, fan_prev_speed, millis, outputs, line_extruder, reset, queue_start >>

\* line 334: the loop of planner_reverse_pass is left
LK_ReverseDone ==
  /\ pc = "reverse_loop"
  /\ call.block_index = call.tail
  /\ pc' = "forward_init"
  /\ UNCHANGED << block_buffer, block_buffer_head, block_buffer_tail, position, previous_speed, previous_nominal_speed, last_extruder, current_block, destination, call, calls, accepted, released, ticket, written, active_extruder, wakeups, fan_kick_end, fan_prev_speed, millis, outputs, line_extruder, reset, visits, queue_start >>

\* lines 370-372: the locals of planner_forward_pass
LK_ForwardInit ==
  /\ pc = "forward_init"
  /\ call' = [ call EXCEPT !.block_index = block_buffer_tail,
                           !.block = << NULL, NULL, NULL >> ]
  /\ pc' = "forward_loop"
  /\ visits' = [ NoVisits EXCEPT !.pass = "forward" ]
  /\ UNCHANGED << block_buffer, block_buffer_head, block_buffer_tail, position, previous_speed, previous_nominal_speed, last_extruder, current_block, destination, calls, accepted, released, ticket, written, active_extruder, wakeups, fan_kick_end, fan_prev_speed, millis, outputs, line_extruder, reset, queue_start >>

\* lines 374-380: one iteration of the loop of planner_forward_pass
LK_ForwardStep ==
  /\ pc = "forward_loop"
  /\ call.block_index # block_buffer_head
  /\ LET block == << call.block[2], call.block[3], call.block_index >>
     IN  /\ block_buffer' = planner_forward_pass_kernel(block_buffer, block[1], block[2])
         /\ call' = [ call EXCEPT !.block_index = next_block_index(call.block_index),
                                  !.block = block ]
         /\ visits' = [ Visited(visits, block[2], block[3]) EXCEPT !.iterations = @ + 1 ]
  /\ UNCHANGED << block_buffer_head, block_buffer_tail, position, previous_speed, previous_nominal_speed, last_extruder, current_block, destination, pc, calls, accepted, released, ticket, written, active_extruder, wakeups, fan_kick_end, fan_prev_speed, millis, outputs, line_extruder, reset, queue_start >>

\* line 381: the kernel call after the loop, on the newest block
LK_ForwardLast ==
  /\ pc = "forward_loop"
  /\ call.block_index = block_buffer_head
  /\ block_buffer' = planner_forward_pass_kernel(block_buffer, call.block[2], call.block[3])
  /\ visits' = Visited(visits, call.block[3], NULL)
  /\ pc' = "trapezoids_init"
  /\ UNCHANGED << block_buffer_head, block_buffer_tail, position, previous_speed, previous_nominal_speed, last_extruder, current_block, destination, call, calls, accepted, released, ticket, written, active_extruder, wakeups, fan_kick_end, fan_prev_speed, millis, outputs, line_extruder, reset, queue_start >>

\* lines 418-421: the locals of planner_recalculate_trapezoids
LK_TrapezoidsInit ==
  /\ pc = "trapezoids_init"
  /\ call' = [ call EXCEPT !.block_index = block_buffer_tail, !.current = NULL, !.next = NULL ]
  /\ pc' = "trapezoids"
  /\ visits' = [ NoVisits EXCEPT !.pass = "trapezoids" ]
  /\ UNCHANGED << block_buffer, block_buffer_head, block_buffer_tail, position, previous_speed, previous_nominal_speed, last_extruder, current_block, destination, calls, accepted, released, ticket, written, active_extruder, wakeups, fan_kick_end, fan_prev_speed, millis, outputs, line_extruder, reset, queue_start >>

\* lines 423-446: one iteration of the loop
LK_TrapezoidsStep ==
  /\ pc = "trapezoids"
  /\ call.block_index # block_buffer_head
  /\ block_buffer' = RecalculateTrapezoidPair(block_buffer, call.next, call.block_index)
  /\ call' = [ call EXCEPT !.current = call.next, !.next = call.block_index,
                           !.block_index = next_block_index(call.block_index) ]
  /\ visits' = [ Visited(visits, call.next, call.block_index) EXCEPT !.iterations = @ + 1 ]
  /\ UNCHANGED << block_buffer_head, block_buffer_tail, position, previous_speed, previous_nominal_speed, last_extruder, current_block, destination, pc, calls, accepted, released, ticket, written, active_extruder, wakeups, fan_kick_end, fan_prev_speed, millis, outputs, line_extruder, reset, queue_start >>

\* lines 448-463 and 1012: the newest block, then the call returns
LK_TrapezoidsLast ==
  /\ pc = "trapezoids"
  /\ call.block_index = block_buffer_head
  /\ block_buffer' = RecalculateTrapezoidLast(block_buffer, call.next)
  /\ visits' = Visited(visits, call.next, NULL)
  /\ pc' = "idle"
  /\ call' = NoCall
  /\ wakeups' = wakeups + 1
  /\ UNCHANGED << block_buffer_head, block_buffer_tail, position, previous_speed, previous_nominal_speed, last_extruder, current_block, destination, calls, accepted, released, ticket, written, active_extruder, fan_kick_end, fan_prev_speed, millis, outputs, line_extruder, reset, queue_start >>

LK_Enter == \E d \in MovesISR : FG_Call(RelativeMove(d), QueuedCalls + MaxCallsLook)

\* lines 483-487: planner_recalculate
LookAhead ==
  \/ LK_ReverseInit \/ LK_ReverseStep \/ LK_ReverseDone
  \/ LK_ForwardInit \/ LK_ForwardStep \/ LK_ForwardLast
  \/ LK_TrapezoidsInit \/ LK_TrapezoidsStep \/ LK_TrapezoidsLast

NextLook ==
  \/ LK_Enter \/ FG_Wait \/ FG_Build \/ FG_Trapezoid \/ FG_Publish
  \/ LookAhead \/ StepperClaim \/ StepperRelease

SpecLook == InitLook /\ [][NextLook]_vars

\* the foreground runs whenever the stepper interrupt is not running, and the
\* interrupt returns: planner_recalculate keeps taking its steps
SpecLookFair == SpecLook /\ WF_vars(LookAhead)

\* ------------------------------------------------------------------------
\* Lines back and forth, short and long, with position resets between them
\* ------------------------------------------------------------------------
\* plan_buffer_line calls in one run of lines back and forth
MaxCallsSteps == 3

\* X by 0.06 mm (5 steps) and by 0.07 mm (6 steps), X back by 10 mm, Y back by
\* 0.1 mm, and filament by 1 mm while Z creeps back by 0.06 mm (5 steps)
StepsLine ==
  \E d \in { Move(6, 0, 0, 0, 5000, 0), Move(7, 0, 0, 0, 5000, 0),
             Move(-1000, 0, 0, 0, 5000, 0), Move(0, -10, 0, 0, 5000, 0),
             Move(0, 0, -6, 100, 200, 0) } :
    \E garbage \in UninitSafeSpeed :
      plan_buffer_line(RelativeMove(d), garbage, MaxCallsSteps)

NextSteps == StepsLine \/ SetPosition \/ StepperClaim \/ StepperRelease

SpecSteps == Init /\ [][NextSteps]_vars

\* ------------------------------------------------------------------------
\* Properties
\* ------------------------------------------------------------------------
\* slot i holds a block the stepper may see: i is in [tail, head)
InQueue(i) ==
  AndMask(i - block_buffer_tail + BLOCK_BUFFER_SIZE) < movesplanned(block_buffer_head, block_buffer_tail)

\* the fields the stepper follows while it executes a block
Profile(b) == << b.accelerate_until, b.decelerate_after, b.initial_rate, b.final_rate >>

\* b2 is b1 up to the busy flag
SameButBusy(b1, b2) == [ b2 EXCEPT !.busy = b1.busy ] = b1

\* the foreground is between the wait loop and the head advance
Constructing == pc \in { "build", "trapezoid", "publish" }

\* the call in progress is held in the wait loop
Blocked == pc = "wait" /\ block_buffer_tail = call.next_buffer_head

\* C1: in every interleaving of the call's steps with the stepper, no step
\* changes accelerate_until, decelerate_after, initial_rate or final_rate of
\* a block whose busy flag is set; the busy test and the four stores are one
\* step of the model.
C1_BusyProfileFrozen ==
  [][ \A i \in Slots :
        block_buffer[i].busy => Profile(block_buffer'[i]) = Profile(block_buffer[i]) ]_vars

\* a trapezoid is being recalculated for a block that is busy
C1_Witness ==
  /\ pc = "trapezoids"
  /\ call.next # NULL
  /\ call.block_index # block_buffer_head
  /\ block_buffer[call.next].busy
  /\ block_buffer[call.next].recalculate_flag \/ block_buffer[call.block_index].recalculate_flag

\* C2: while a call constructs a block, it has seen next(head) # tail, the
\* slot at head is outside [tail, head), the block last published in that
\* slot has been released, and no other slot is written.
C2_WriteSlotFree ==
  /\ [](Constructing =>
          /\ next_block_index(block_buffer_head) # block_buffer_tail
          /\ ~InQueue(block_buffer_head)
          /\ current_block # block_buffer_head
          /\ ticket[block_buffer_head] <= released)
  /\ [][ Constructing =>
           \A i \in Slots \ { block_buffer_head } :
             SameButBusy(block_buffer[i], block_buffer'[i]) ]_vars

\* a block is constructed in a reused slot while the queue holds others
C2_Witness ==
  /\ pc = "trapezoid"
  /\ ticket[block_buffer_head] > 0
  /\ block_buffer_head # block_buffer_tail
  /\ current_block # NULL

\* C3: movesplanned() equals accepted minus released, stays in
\* 0..BLOCK_BUFFER_SIZE-1, and is zero exactly when head = tail.
C3_Depth ==
  /\ movesplanned(block_buffer_head, block_buffer_tail) = accepted - released
  /\ accepted - released \in 0 .. (BLOCK_BUFFER_SIZE - 1)
  /\ (block_buffer_head = block_buffer_tail) <=> (accepted = released)

\* the queue holds BLOCK_BUFFER_SIZE-1 blocks across the wrap of the indices
C3_Witness ==
  /\ accepted - released = BLOCK_BUFFER_SIZE - 1
  /\ block_buffer_head < block_buffer_tail

\* C4: with BLOCK_BUFFER_SIZE-1 blocks queued the next call is held in its
\* wait loop; while it is held no step writes a block, head or position;
\* under fairness of the stepper and the foreground a held call returns.
C4_Backpressure ==
  /\ []((pc = "wait" /\ accepted - released = BLOCK_BUFFER_SIZE - 1) => Blocked)
  /\ [][ Blocked =>
           /\ pc' = "wait"
           /\ block_buffer_head' = block_buffer_head
           /\ position' = position
           /\ \A i \in Slots : SameButBusy(block_buffer[i], block_buffer'[i]) ]_vars
  /\ (Blocked ~> (pc = "idle"))

\* the eighth call waits on seven blocks none of which has been released
C4_Witness == Blocked /\ released = 0 /\ accepted = BLOCK_BUFFER_SIZE - 1

\* C5: every block the stepper can reach (in [tail, head), or claimed) has
\* had its fields and then its first trapezoid written by the call that
\* published it, and head advances only over such a block.
C5_PublishedComplete ==
  /\ [](\A i \in Slots : (InQueue(i) \/ current_block = i) => written[i] = "profile")
  /\ [][ block_buffer_head' # block_buffer_head =>
           /\ written[block_buffer_head] = "profile"
           /\ ~block_buffer[block_buffer_head].busy
           /\ block_buffer[block_buffer_head].step_event_count > dropsegments ]_vars

\* the stepper has claimed the block published a moment ago
C5_Witness ==
  /\ pc = "reverse"
  /\ current_block # NULL
  /\ next_block_index(current_block) = block_buffer_head

\* C6: the queue holds the accepted and not yet released blocks in the order
\* of acceptance, the stepper's block is the one at tail, so the k-th release
\* hands over the k-th accepted block.
C6_Fifo ==
  /\ \A j \in 0 .. (BLOCK_BUFFER_SIZE - 1) :
       j < movesplanned(block_buffer_head, block_buffer_tail)
         => ticket[AndMask(block_buffer_tail + j)] = released + 1 + j
  /\ current_block # NULL => current_block = block_buffer_tail

\* the ninth block, in the slot of the first, is at tail while claimed
C6_Witness ==
  /\ released = BLOCK_BUFFER_SIZE
  /\ current_block = 0
  /\ ticket[0] = BLOCK_BUFFER_SIZE + 1

\* C7: once calls have returned, every block in [tail, head) has
\* 0 <= accelerate_until <= decelerate_after <= step_event_count, slots that
\* held another block before included.
C7_ProfileOrdered ==
  pc = "idle" =>
    \A i \in Slots :
      InQueue(i) =>
        /\ 0 <= block_buffer[i].accelerate_until
        /\ block_buffer[i].accelerate_until <= block_buffer[i].decelerate_after
        /\ block_buffer[i].decelerate_after <= block_buffer[i].step_event_count

\* the block in slot i is an E-only move
EOnly(i) ==
  /\ block_buffer[i].steps_x <= dropsegments
  /\ block_buffer[i].steps_y <= dropsegments
  /\ block_buffer[i].steps_z <= dropsegments

\* C8: every block in [tail, head) has
\* MIN_STEP_RATE <= initial_rate <= nominal_rate and
\* MIN_STEP_RATE <= final_rate <= nominal_rate, nominal_rate below
\* MIN_STEP_RATE included.
C8_RatesClamped ==
  \A i \in Slots :
    InQueue(i) =>
      /\ MIN_STEP_RATE <= block_buffer[i].initial_rate
      /\ block_buffer[i].initial_rate <= block_buffer[i].nominal_rate
      /\ MIN_STEP_RATE <= block_buffer[i].final_rate
      /\ block_buffer[i].final_rate <= block_buffer[i].nominal_rate

\* C9: every block in the queue, XYZ move or E-only move, has
\* entry_speed <= max_entry_speed <= nominal_speed after each call and its
\* reverse and forward pass.
C9_EntrySpeedBounded ==
  \A i \in Slots :
    InQueue(i) =>
      /\ block_buffer[i].entry_speed <= block_buffer[i].max_entry_speed
      /\ block_buffer[i].max_entry_speed <= block_buffer[i].nominal_speed

\* the reverse pass has raised the entry speed of a block above what its own
\* length allows, below its junction limit, in a queue with an E-only block
C9_Witness ==
  /\ movesplanned(block_buffer_head, block_buffer_tail) >= 6
  /\ \E i \in Slots :
       /\ InQueue(i)
       /\ ~EOnly(i)
       /\ ~block_buffer[i].nominal_length_flag
       /\ block_buffer[i].entry_speed < block_buffer[i].max_entry_speed
       /\ block_buffer[i].entry_speed >
            max_allowable_speed(-block_buffer[i].acceleration, MINIMUM_PLANNER_SPEED,
                                block_buffer[i].millimeters)
  /\ \E j \in Slots : InQueue(j) /\ EOnly(j)

\* C10: after every call, each adjacent pair (A, B) of queued blocks has
\* B.entry_speed^2 <= 2*A.acceleration*A.millimeters + A.entry_speed^2.
C10_ForwardFeasible ==
  \A i \in Slots :
    (InQueue(i) /\ InQueue(next_block_index(i))) =>
      block_buffer[next_block_index(i)].entry_speed * block_buffer[next_block_index(i)].entry_speed
        <= 2 * block_buffer[i].acceleration * block_buffer[i].millimeters
             + block_buffer[i].entry_speed * block_buffer[i].entry_speed


\* C11: after every call, each adjacent pair (A, B) of queued blocks has
\* A.entry_speed^2 <= 2*A.acceleration*A.millimeters + B.entry_speed^2: A can
\* decelerate to B's entry speed within its own length.
C11_ReverseFeasible ==
  \A i \in Slots :
    (InQueue(i) /\ InQueue(next_block_index(i))) =>
      block_buffer[i].entry_speed * block_buffer[i].entry_speed
        <= 2 * block_buffer[i].acceleration * block_buffer[i].millimeters
             + block_buffer[next_block_index(i)].entry_speed
                 * block_buffer[next_block_index(i)].entry_speed

\* C12: a plan_buffer_line call whose step_event_count equals dropsegments
\* inserts no block, one whose step_event_count equals dropsegments + 1
\* inserts exactly one block, and every block in the queue has
\* step_event_count > dropsegments.  The step_event_count of a call is read
\* from the slot at head, where line 716 stores it before the test of line 719.
C12_DropThreshold ==
  /\ [](\A i \in Slots : InQueue(i) => block_buffer[i].step_event_count > dropsegments)
  /\ [][ calls' = calls + 1 =>
           LET n == block_buffer'[block_buffer_head].step_event_count
           IN  /\ n = dropsegments =>
                    /\ accepted' = accepted
                    /\ block_buffer_head' = block_buffer_head
                    /\ block_buffer_tail' = block_buffer_tail
               /\ n = dropsegments + 1 =>
                    /\ accepted' = accepted + 1
                    /\ block_buffer_head' = next_block_index(block_buffer_head)
                    /\ block_buffer_tail' = block_buffer_tail
                    /\ movesplanned(block_buffer_head', block_buffer_tail')
                         = movesplanned(block_buffer_head, block_buffer_tail) + 1 ]_vars

\* a block of dropsegments + 1 steps is queued and the call after it, of
\* exactly dropsegments steps, left its steps in the slot at head and no block
C12_Witness ==
  /\ calls = accepted + 1
  /\ written[block_buffer_head] = "stale"
  /\ block_buffer[block_buffer_head].step_event_count = dropsegments
  /\ InQueue(prev_block_index(block_buffer_head))
  /\ block_buffer[prev_block_index(block_buffer_head)].step_event_count = dropsegments + 1

\* C13: a dropped plan_buffer_line call (step_event_count <= dropsegments)
\* changes nothing of the planner: head, tail, every coordinate of position
\* (position[E] included when the call names another extruder than the last
\* one), previous_speed, previous_nominal_speed and every block in
\* [tail, head) are unchanged, and st_wake_up is not called.
C13_DroppedIsNoOp ==
  [][ (calls' = calls + 1
         /\ block_buffer'[block_buffer_head].step_event_count <= dropsegments) =>
        /\ block_buffer_head' = block_buffer_head
        /\ block_buffer_tail' = block_buffer_tail
        /\ position' = position
        /\ previous_speed' = previous_speed
        /\ previous_nominal_speed' = previous_nominal_speed
        /\ \A i \in Slots : InQueue(i) => block_buffer'[i] = block_buffer[i]
        /\ wakeups' = wakeups ]_vars

\* C16: position[E] is rescaled by steps_per_unit[new]/steps_per_unit[old]
\* on the first plan_buffer_line call after the extruder index changed, and
\* not again by a following call with the same extruder index as the call
\* before it.  The E position a call starts from is read off the steps_e it
\* stores: |target[E] - position[E]| scaled by extrudemultiply.
C16_RescaleOncePerSwap ==
  [][ (calls' = calls + 1 /\ line_extruder # NULL) =>
        LET target == TargetSteps(destination'[X_AXIS], destination'[Y_AXIS],
                                  destination'[Z_AXIS], destination'[E_AXIS], line_extruder')
            from == IF line_extruder' # line_extruder
                    THEN RoundDiv(position[E_AXIS] * StepsPerUnit(E_AXIS + line_extruder'),
                                  StepsPerUnit(E_AXIS + line_extruder))
                    ELSE position[E_AXIS]
        IN  block_buffer'[block_buffer_head].steps_e
              = (Abs(target[E_AXIS] - from) * extrudemultiply) \div 100 ]_vars


\* C14: a plan_buffer_line call that names the point of the plan_set_position
\* call made just before it, with the extruder that is selected then and now,
\* is dropped: nothing is queued, head and tail stay, the queue is untouched.
C14_RoundTripDropped ==
  [][ ( /\ calls' = calls + 1
        /\ reset.n > 0 /\ ~reset.e_only /\ reset.calls = calls
        /\ reset.extruder = active_extruder
        /\ line_extruder' = active_extruder
        /\ destination' = destination )
      => ( /\ accepted' = accepted
           /\ block_buffer_head' = block_buffer_head
           /\ block_buffer_tail' = block_buffer_tail
           /\ position' = position
           /\ wakeups' = wakeups ) ]_vars

\* a dropped round trip through a point off the origin, on the second extruder
C14_Witness ==
  /\ reset.n > 0 /\ ~reset.e_only /\ reset.calls + 1 = calls
  /\ reset.extruder = 1 /\ active_extruder = 1 /\ line_extruder = 1
  /\ destination[X_AXIS] = 1003 /\ destination[E_AXIS] = -251
  /\ position = SetPositionSteps(1003, -7, 33, -251)
  /\ position[E_AXIS] # SetPositionSteps_E0(1003, -7, 33, -251)[E_AXIS]
  /\ accepted = 0
  /\ block_buffer_head = block_buffer_tail

C17_CornerJerkScaled ==
  ( /\ calls = 2 /\ accepted = 2 /\ released = 0 /\ reset.n = 0
    /\ block_buffer[0].steps_x = 800 /\ block_buffer[0].steps_y = 0
    /\ block_buffer[0].nominal_speed = 5000
    /\ block_buffer[1].steps_x = 0 /\ block_buffer[1].steps_y = 800
    /\ block_buffer[1].nominal_speed = 5000 )
  => /\ block_buffer[1].max_entry_speed \in 1400 .. 1500
     /\ block_buffer[1].entry_speed \in 1400 .. 1500

\* C17, amended: in the corner scenario only one block is queued when the
\* second line is planned, so the second block gets the safe start speed
\* max_xy_jerk / 2 = 10 mm/s as max_entry_speed and entry_speed; the same
\* corner planned with two blocks queued gets the jerk-scaled speed, about
\* 14.1 mm/s (between 14 and 15).
C17_CornerSafeSpeed ==
  /\ ( /\ calls = 2 /\ accepted = 2 /\ released = 0 /\ reset.n = 0
       /\ block_buffer[0].steps_x = 800 /\ block_buffer[0].steps_y = 0
       /\ block_buffer[0].nominal_speed = 5000
       /\ block_buffer[1].steps_x = 0 /\ block_buffer[1].steps_y = 800
       /\ block_buffer[1].nominal_speed = 5000 )
     => /\ block_buffer[1].max_entry_speed = max_xy_jerk \div 2
        /\ block_buffer[1].entry_speed = max_xy_jerk \div 2
  /\ ( /\ calls = 3 /\ accepted = 3 /\ released = 0 /\ reset.n = 0
       /\ block_buffer[0].steps_x = 800 /\ block_buffer[0].steps_y = 0
       /\ block_buffer[1].steps_x = 800 /\ block_buffer[1].steps_y = 0
       /\ block_buffer[1].nominal_speed = 5000
       /\ block_buffer[2].steps_x = 0 /\ block_buffer[2].steps_y = 800
       /\ block_buffer[2].nominal_speed = 5000 )
     => /\ block_buffer[2].max_entry_speed \in 1400 .. 1500
        /\ block_buffer[2].entry_speed \in 1400 .. 1500

\* the corner has been planned behind one queued block
C17_Witness ==
  /\ calls = 2 /\ accepted = 2 /\ released = 0
  /\ block_buffer[0].steps_x = 800 /\ block_buffer[0].steps_y = 0
  /\ block_buffer[0].nominal_speed = 5000
  /\ block_buffer[1].steps_x = 0 /\ block_buffer[1].steps_y = 800
  /\ block_buffer[1].nominal_speed = 5000
  /\ block_buffer[1].max_entry_speed = 1000
  /\ block_buffer_head = 2 /\ block_buffer_tail = 0

\* C18: a check_axes_activity call switches an axis off exactly when the
\* disable-on-idle policy of the axis is set and no block in [tail, head) has
\* steps on it, and it changes no block, neither head nor tail, nor position.
C18_DisableWhenIdle ==
  [][ outputs'.n # outputs.n
      => /\ \A axis \in Axes :
              (axis \in outputs'.disable)
                <=> ( /\ DisablePolicy(axis)
                      /\ \A i \in 0 .. (BLOCK_BUFFER_SIZE - 1) :
                           InQueue(i) => AxisSteps(block_buffer[i], axis) = 0 )
         /\ UNCHANGED << block_buffer, block_buffer_head, block_buffer_tail, position >> ]_vars

\* a check on a queue whose only block moves X: Z and E are switched off, X is
\* not, and Y (policy not set) is not
C18_Witness ==
  /\ outputs.n > 0 /\ outputs.calls = calls /\ outputs.released = released
  /\ accepted = 1 /\ released = 0
  /\ block_buffer_head # block_buffer_tail
  /\ block_buffer[block_buffer_tail].steps_x # 0
  /\ outputs.disable = { Z_AXIS, E_AXIS }

\* C19 as stated: a check_axes_activity call that follows another one with no
\* plan_buffer_line call, no stepper activity and no change of the selected
\* extruder in between sends the same disable commands and the same fan PWM
\* value as the first.
C19_Idempotent ==
  [][ ( /\ outputs'.n # outputs.n /\ outputs.n > 0
        /\ outputs.calls = calls /\ outputs.released = released
        /\ outputs.current_block = current_block
        /\ outputs.extruder = active_extruder )
      => /\ outputs'.disable = outputs.disable
         /\ outputs'.fan = outputs.fan ]_vars

\* C19, amended: such a second call sends the same disable commands, and the
\* same fan PWM value unless the first call wrote the kick-start value and the
\* kick-start time has run out by the second call, which then writes the fan
\* speed of the tail block (of the configuration, when the queue is empty).
C19_IdempotentButKick ==
  [][ ( /\ outputs'.n # outputs.n /\ outputs.n > 0
        /\ outputs.calls = calls /\ outputs.released = released
        /\ outputs.current_block = current_block
        /\ outputs.extruder = active_extruder )
      => /\ outputs'.disable = outputs.disable
         /\ \/ outputs'.fan = outputs.fan
            \/ /\ outputs.fan = FAN_FULL
               /\ fan_kick_end[active_extruder] <= millis
               /\ outputs'.fan = TailFanSpeed(active_extruder) ]_vars

\* two checks in a row on the idle planner, the first inside the kick-start
\* and the second after it
C19_Witness ==
  /\ outputs.n = 2 /\ calls = 0 /\ active_extruder = 0 /\ outputs.extruder = 0
  /\ outputs.fan = fanSpeed[1] /\ outputs.fan # FAN_FULL
  /\ fan_kick_end[0] = FAN_KICKSTART_TIME
  /\ fan_prev_speed[0] = fanSpeed[1]
  /\ millis >= FAN_KICKSTART_TIME

\* C20: the profile stored for a block that is not busy is the one defined by
\* the rates of the same call: accelerate_until and decelerate_after of every
\* such block in [tail, head) are the acceleration steps and the acceleration
\* plus plateau steps computed from the initial_rate and final_rate stored
\* with them, whatever rates the slot held before.
C20_ProfileFromOwnRates ==
  pc = "idle" =>
    \A i \in Slots :
      (InQueue(i) /\ block_buffer[i].busy = FALSE) =>
        /\ block_buffer[i].accelerate_until
             = TrapezoidSteps(block_buffer[i]).accelerate_steps
        /\ block_buffer[i].decelerate_after
             = TrapezoidSteps(block_buffer[i]).accelerate_steps
                 + TrapezoidSteps(block_buffer[i]).plateau_steps

\* C21: the first trapezoid of a new block, resolved before head is advanced,
\* takes its exit factor from the junction floor of the block: the stored
\* final_rate is the one resolved from safe_floor / nominal_speed, safe_floor
\* being min(max_e_jerk, nominal_speed) for an E-only move and max_xy_jerk / 2
\* reduced by the Z and E half-jerks and by nominal_speed for any other move.
C21_InitialExitFromFloor ==
  pc = "publish" =>
    LET b == block_buffer[block_buffer_head]
        safe_floor == IF NoMove(b)
                      THEN Min(max_e_jerk[b.active_extruder + 1], b.nominal_speed)
                      ELSE SafeJunctionSpeed(call.current_speed, b.nominal_speed,
                                             b.active_extruder)
    IN  b.final_rate = ClampedFinalRate(b.nominal_rate, << safe_floor, b.nominal_speed >>)

\* C22: once a call has returned, the newest block of the queue (head - 1), if
\* it is not busy, holds the final_rate resolved from the exit factor
\* MINIMUM_PLANNER_SPEED / nominal_speed: ceil(nominal_rate *
\* MINIMUM_PLANNER_SPEED / nominal_speed), raised to MIN_STEP_RATE and limited
\* to nominal_rate.
C22_NewestEndsAtMinimum ==
  ( /\ pc = "idle"
    /\ block_buffer_head # block_buffer_tail
    /\ block_buffer[prev_block_index(block_buffer_head)].busy = FALSE )
  => LET b == block_buffer[prev_block_index(block_buffer_head)]
     IN  b.final_rate
           = Min(Max(CeilDiv(b.nominal_rate * MINIMUM_PLANNER_SPEED, b.nominal_speed),
                     MIN_STEP_RATE),
                 b.nominal_rate)

\* two blocks queued behind each other, none busy; the newest one enters
\* faster than it leaves
C22_Witness ==
  /\ pc = "idle"
  /\ movesplanned(block_buffer_head, block_buffer_tail) = 2
  /\ current_block = NULL
  /\ block_buffer[prev_block_index(block_buffer_head)].busy = FALSE
  /\ block_buffer[prev_block_index(block_buffer_head)].final_rate = MIN_STEP_RATE
  /\ block_buffer[prev_block_index(block_buffer_head)].initial_rate > MIN_STEP_RATE

\* C23: once a call has returned, every block A of the queue that is not busy
\* and has a successor B in the queue holds the final_rate resolved from the
\* exit factor B.entry_speed / A.nominal_speed and the initial_rate resolved
\* from the entry factor A.entry_speed / A.nominal_speed, also when B is an
\* E-only block just appended.
C23_JunctionRatesAgree ==
  pc = "idle" =>
    \A i \in Slots :
      ( /\ InQueue(i) /\ InQueue(next_block_index(i))
        /\ block_buffer[i].busy = FALSE )
      => LET A == block_buffer[i]
             B == block_buffer[next_block_index(i)]
         IN  /\ A.final_rate
                  = ClampedFinalRate(A.nominal_rate, << B.entry_speed, A.nominal_speed >>)
             /\ A.initial_rate
                  = ClampedInitialRate(A.nominal_rate, << A.entry_speed, A.nominal_speed >>)

\* C24: no step of the look-ahead (reverse pass, forward pass, trapezoid
\* recomputation) changes any field of a queued block whose busy flag is set,
\* entry_speed and recalculate_flag included, whenever the stepper releases
\* and claims blocks during the call.
C24_LookAheadSparesBusy ==
  [][ (pc \in { "reverse", "forward", "trapezoids_init", "trapezoids" })
      => ( \A i \in Slots :
             (InQueue(i) /\ block_buffer[i].busy)
               => block_buffer'[i] = block_buffer[i] ) ]_vars

\* C26: a step of planner_recalculate_trapezoids clears the recalculate_flag
\* of a block only if the block's trapezoid is stored in that step, so a busy
\* block keeps its flag; and it leaves untouched every queued block that is
\* neither flagged nor followed by a flagged block.
C26_FlagClearedWithStore ==
  [][ (pc = "trapezoids" /\ (call' # call \/ pc' # pc))
      => ( \A i \in Slots :
             /\ (block_buffer[i].recalculate_flag /\ ~block_buffer'[i].recalculate_flag)
                  => ~block_buffer[i].busy
             /\ ( /\ InQueue(i)
                  /\ ~block_buffer[i].recalculate_flag
                  /\ InQueue(next_block_index(i))
                       => ~block_buffer[next_block_index(i)].recalculate_flag )
                  => block_buffer'[i] = block_buffer[i] ) ]_vars


\* C27: every block of the queue, XYZ move or E-only move, in a fresh or a
\* reused slot, has nominal_length_flag set exactly when its nominal_speed is
\* at most v_allowable = sqrt(2 * acceleration * millimeters +
\* MINIMUM_PLANNER_SPEED^2).
C27_NominalLengthFlag ==
  \A i \in Slots :
    InQueue(i) =>
      ( block_buffer[i].nominal_length_flag
          <=> block_buffer[i].nominal_speed
                <= max_allowable_speed(-block_buffer[i].acceleration,
                                       MINIMUM_PLANNER_SPEED,
                                       block_buffer[i].millimeters) )

\* C28: every block of the queue, E-only blocks included, keeps each axis
\* within its acceleration cap: acceleration_st * steps_i / step_event_count
\* <= max_acceleration_units_per_sq_second[i] * axis_steps_per_unit[i] for
\* i in X, Y, Z, E (E of the block's extruder).
C28_AxisAccelerationCapped ==
  \A i \in Slots :
    InQueue(i) =>
      \A axis \in Axes :
        LET b == block_buffer[i]
            ii == axis + (IF axis = E_AXIS THEN b.active_extruder ELSE 0)
        IN  b.acceleration_st * AxisSteps(b, axis)
              <= MaxAccel(ii) * StepsPerUnit(ii) * b.step_event_count

\* C29: once calculate_trapezoid_for_block has run on a block that is not
\* busy and whose acceleration_st is 0, the block holds a degenerate profile:
\* no acceleration and no deceleration steps (accelerate_until = 0,
\* decelerate_after = step_event_count), the initial rate not below
\* MIN_STEP_RATE, the final rate not above the nominal rate and below
\* MIN_STEP_RATE only when the nominal rate is
C29_ZeroAccelerationProfile ==
  \A i \in Slots :
    (InQueue(i) /\ calls >= 1 /\ ~block_buffer[i].busy
       /\ block_buffer[i].acceleration_st = 0) =>
      LET b == block_buffer[i]
      IN  /\ b.accelerate_until = 0
          /\ b.decelerate_after = b.step_event_count
          /\ b.initial_rate >= MIN_STEP_RATE
          /\ b.final_rate <= b.nominal_rate
          /\ (b.final_rate >= MIN_STEP_RATE \/ b.final_rate = b.nominal_rate)

\* a zero-acceleration block computed twice: from rates left in the slot and
\* then from its own, ending with a final rate below its nominal rate
C29_Witness ==
  /\ calls = 2
  /\ ~block_buffer[0].busy
  /\ block_buffer[0].acceleration_st = 0
  /\ block_buffer[0].decelerate_after = 100
  /\ block_buffer[0].initial_rate = 4000
  /\ block_buffer[0].final_rate = 2000

\* C25: when the reverse pass has ended on a queue that held three or more
\* blocks at its start, its kernel has been applied exactly to the pairs
\* (head-2, head-1), (head-3, head-2), ..., (tail+1, tail+2), in this order:
\* every block strictly between the tail block and the newest block once as
\* current with its queue successor as next, starting just before the newest.
C25_ReverseVisitsAll ==
  (pc = "forward_init" /\ visits.pass = "reverse"
     /\ movesplanned(block_buffer_head, call.tail) >= 3) =>
    visits.pairs =
      [ k \in 1 .. (movesplanned(block_buffer_head, call.tail) - 2) |->
          << AndMask(block_buffer_head - k - 1 + BLOCK_BUFFER_SIZE),
             AndMask(block_buffer_head - k + BLOCK_BUFFER_SIZE) >> ]

\* C30: planner_recalculate terminates. Whatever the depth of the queue and
\* however the stepper claims and releases blocks during the call, no pass
\* (reverse, forward, trapezoids) makes more than BLOCK_BUFFER_SIZE loop
\* iterations, no pass hands the same block to its kernel as current twice,
\* and a call that has reached planner_recalculate returns.
C30_RecalculateTerminates ==
  /\ [](/\ visits.iterations <= BLOCK_BUFFER_SIZE
        /\ \A i, j \in 1 .. Len(visits.currents) :
             i # j => visits.currents[i] # visits.currents[j])
  /\ ((pc = "reverse") ~> (pc = "idle"))

\* a forward pass over a queue of BLOCK_BUFFER_SIZE - 1 blocks that started at
\* slot 0 and ended after the stepper had released two blocks meanwhile
C30_Witness ==
  /\ pc = "trapezoids_init"
  /\ visits.pass = "forward"
  /\ visits.iterations = BLOCK_BUFFER_SIZE - 1
  /\ Len(visits.currents) = BLOCK_BUFFER_SIZE - 1
  /\ visits.currents[1] = 0
  /\ block_buffer_tail = 2

\* C31: steps are conserved on X, Y and Z. Whatever lines were accepted or
\* dropped and whatever blocks the stepper released, with positions reset only
\* on an empty queue, position[i] is the point where the oldest queued block
\* starts plus the steps of the queued blocks, each counted against the axis
\* when its direction bit is set; and between calls the register is never
\* further than dropsegments steps from the point last commanded, and an
\* accepted line brings it to the point commanded with a block of exactly the
\* steps in between: what a dropped line leaves behind goes into the next
\* accepted block.
C31_StepsConserved ==
  /\ [](\A axis \in { X_AXIS, Y_AXIS, Z_AXIS } :
          LET RECURSIVE QueuedSteps(_)
              QueuedSteps(block_index) ==
                IF block_index = block_buffer_head THEN 0
                ELSE SignedSteps(block_buffer[block_index], axis)
                       + QueuedSteps(next_block_index(block_index))
              target == TargetSteps(destination[X_AXIS], destination[Y_AXIS],
                                    destination[Z_AXIS], destination[E_AXIS], 0)
          IN  /\ position[axis] = queue_start[axis] + QueuedSteps(block_buffer_tail)
              /\ pc = "idle" => Abs(target[axis] - position[axis]) <= dropsegments)
  /\ [][ (accepted' # accepted) =>
           (\A axis \in { X_AXIS, Y_AXIS, Z_AXIS } :
              /\ position'[axis]
                   = TargetSteps(destination'[X_AXIS], destination'[Y_AXIS],
                                 destination'[Z_AXIS], destination'[E_AXIS], 0)[axis]
              /\ SignedSteps(block_buffer'[block_buffer_head], axis)
                   = position'[axis] - position[axis]) ]_vars

\* a line of 5 steps on X was dropped, the next line of 6 steps went out as a
\* block of 10, the stepper released it, and a line back by 10 mm is queued
C31_Witness ==
  /\ calls = 3
  /\ accepted = 2
  /\ released = 1
  /\ reset.n = 0
  /\ block_buffer[0].steps_x = 10
  /\ queue_start[X_AXIS] = 10
  /\ block_buffer_tail = 1
  /\ block_buffer_head = 2
  /\ X_AXIS \in block_buffer[1].direction_bits
  /\ block_buffer[1].steps_x = 800
  /\ position[X_AXIS] = -790

===========================================================================
